---- MODULE Spec2Model ----
(***************************************************************************)
(* The agent task orchestrator (AgentService, agentServiceImpl.ts): the    *)
(* task table, the cancellation-source table, the execution loop of each   *)
(* task and the two event streams.                                         *)
(*                                                                         *)
(* JavaScript runs each handler to its next await without interruption,    *)
(* so one action is one such run: executeTask up to the first await of the *)
(* loop it starts, the loop from the settling of a step to the next await  *)
(* or to its return, the .then callback of executeTask, cancelTask, the    *)
(* listener on the caller's token, dispose.                                *)
(*                                                                         *)
(* The two streams hold, per task, the snapshots handed to fire() on the    *)
(* two emitters, in order.  Every value the table entry of a task takes is *)
(* written by updateTask, which fires it, so the update stream is also the *)
(* history of the entry.  dispose() cancels the sources and disposes the   *)
(* emitters; the loops that are in flight go on and still call fire().     *)
(*                                                                         *)
(* Indices are those of the code: steps are counted from 0 (currentStep,   *)
(* the loop variable i), so step i is steps[i + 1] of the TLA+ sequence.   *)
(* The immutable strings of a task (id, name, description) are left out:   *)
(* the key of the table is the id.                                         *)
(*                                                                         *)
(* planTask is a second, independent operation of the service: one call of *)
(* it, from the lookup of the active model to its return or throw.         *)
(*                                                                         *)
(* The sandbox (AgentSandbox, agentSandbox.ts) is a separate class that    *)
(* the agent service does not use.  A call of executeInVM or executeTests  *)
(* is an activation with its own position; the file system, the child      *)
(* processes and the timers are the environment, and each of their         *)
(* completions or events is an action.  Time is abstract: a timer that is  *)
(* set may fire at any later step.                                         *)
(***************************************************************************)
EXTENDS Integers, Sequences, FiniteSets, TLC

\* Longest plan handed to executeTask.
MaxPlanLen == 2

\* maxSteps = 10 when the caller gives none.
DefaultMaxSteps == 10

\* The values generateUuid() returns for task ids.
Uuids == {"a", "b"}

\* AgentStepType; "custom" has no case in the dispatch of executeStep.
StepTypes == {"search", "generate", "edit", "test", "verify", "custom"}

\* AgentTaskStatus and AgentStepStatus.
TaskStatuses == {"Pending", "Running", "Completed", "Failed", "Cancelled"}
StepStatuses == {"Pending", "Running", "Completed", "Failed", "Skipped"}
Terminal == {"Completed", "Failed", "Cancelled"}

\* An optional field that is not set (undefined): result and error of a step,
\* which are plain values here, and error of a task, which is a composed message.
NoValue == "undefined"
NoMessage == <<>>

VARIABLES
    tasks,              \* _tasks: task id -> AgentTask
    taskCancellations,  \* _taskCancellations: the task ids that have an entry
    cancelRequested,    \* task id -> isCancellationRequested of the task's own source
    callerToken,        \* task id -> "none" | "live" | "cancelled": the token given to executeTask
    frame,              \* task id -> the activation of executeSteps: its task argument, position, options
    invoked,            \* task id -> the step indices executeStep was called for, in call order
    settled,            \* task id -> <<step index, outcome>> of each executeStep promise that settled
    onDidTaskUpdate,    \* task id -> the snapshots fired on _onDidTaskUpdate, in order
    onDidTaskComplete,  \* task id -> the snapshots fired on _onDidTaskComplete, in order
    disposed,           \* dispose() has run
    call,               \* task id -> the plan and maxSteps executeTask was called with
    cancelTaskAt,       \* task id -> the status the task had when cancelTask took effect, or NoValue
    collaboratorCalls,  \* task id -> <<step index, method>> of each call a handler made, in order
    planner,            \* the one call of planTask: position, active model, requests, response, result
    sandboxCalls,       \* call id -> the activation of executeInVM or executeTests
    children,           \* call id -> the ChildProcess the call spawned, and the process behind it
    activeExecutions,   \* activeExecutions: execution id -> call id of the registered child
    directories,        \* the sandbox ids whose working directory exists on disk
    now,                \* Date.now()
    validation          \* the one call of validateChanges: position, files, errors, result

vars == <<tasks, taskCancellations, cancelRequested, callerToken, frame, invoked, settled,
          onDidTaskUpdate, onDidTaskComplete, disposed, call, cancelTaskAt,
          collaboratorCalls, planner, sandboxCalls, children, activeExecutions,
          directories, now, validation>>

\* The state of the sandbox (AgentSandbox, agentSandbox.ts) and of what it acts
\* on: its calls, the child processes, the registry, the disk, the clock.
sandboxVars == <<sandboxCalls, children, activeExecutions, directories, now, validation>>

----------------------------------------------------------------------------
(* Plans *)

\* A plan step {type, description}; the description of the k-th step is k.
PlanOf(types) ==
    [k \in 1..Len(types) |-> [type |-> types[k], description |-> k]]

\* All plans of at most n steps over the step types ts.
PlansOver(ts, n) ==
    UNION {{PlanOf(types) : types \in [1..k -> ts]} : k \in 0..n}

\* slice that keeps the whole array.
Slice0Whole(s, end) == s

\* Array.prototype.slice(0, end).
Slice0(s, end) ==
    LET n == Len(s)
        e == IF end < 0 THEN (IF n + end < 0 THEN 0 ELSE n + end)
             ELSE (IF end > n THEN n ELSE end)
    IN  SubSeq(s, 1, e)

\* plan.steps.slice(0, maxSteps).map(...): the steps of a new task.
NewSteps(plan, maxSteps) ==
    LET kept == Slice0(plan, maxSteps)
    IN  [k \in 1..Len(kept) |->
            [id |-> k, type |-> kept[k].type, name |-> kept[k].description,
             status |-> "Pending", result |-> NoValue, error |-> NoValue]]

----------------------------------------------------------------------------
(* The task table and the update stream.  S = [tasks, upd] is the pair the *)
(* private update methods read and write.                                  *)

\* { ...object, ...updates }
Merge(object, updates) ==
    [f \in DOMAIN object |-> IF f \in DOMAIN updates THEN updates[f] ELSE object[f]]

Range(seq) == {seq[k] : k \in 1..Len(seq)}

\* The one element of a singleton set.
Only(set) == CHOOSE x \in set : TRUE

\* updateTask that writes the table entry and fires nothing.
updateTaskSilent(S, taskId, updates) ==
    Only({ IF taskId \notin DOMAIN s.tasks
           THEN s
           ELSE [tasks |-> [s.tasks EXCEPT ![taskId] = Merge(@, updates)],
                 upd   |-> s.upd]
           : s \in {S} })

\* (s \in {S} gives the argument a name whose value is computed once.)
updateTask(S, taskId, updates) ==
    Only({ IF taskId \notin DOMAIN s.tasks
           THEN s
           ELSE LET updated == Merge(s.tasks[taskId], updates)
                IN  [tasks |-> [s.tasks EXCEPT ![taskId] = updated],
                     upd   |-> [s.upd EXCEPT ![taskId] = Append(@, updated)]]
           : s \in {S} })

\* findIndex that stops at the first step whatever its id.
FindIndexFirst(steps, stepId) ==
    IF steps # <<>> THEN 1 ELSE 0

\* steps.findIndex(s => s.id === stepId), 0 for -1
FindIndex(steps, stepId) ==
    IF \E k \in 1..Len(steps) : steps[k].id = stepId
    THEN CHOOSE k \in 1..Len(steps) :
            /\ steps[k].id = stepId
            /\ \A j \in 1..(k - 1) : steps[j].id # stepId
    ELSE 0

updateStep(S, taskId, stepId, updates) ==
    Only({ IF taskId \notin DOMAIN s.tasks
           THEN s
           ELSE LET steps == s.tasks[taskId].steps
                    stepIndex == FindIndex(steps, stepId)
                IN  IF stepIndex = 0
                    THEN s
                    ELSE updateTask(s, taskId,
                           [steps |-> [steps EXCEPT ![stepIndex] = Merge(@, updates)]])
           : s \in {S} })

----------------------------------------------------------------------------
(* Step handlers *)

Ok(value) == [ok |-> TRUE, value |-> value]
Throws(message) == [ok |-> FALSE, value |-> message]

\* executeStep that dispatches on the type before it looks at dryRun.
executeStepDispatchFirst(type, dryRun) ==
    CASE type = "search"   -> IF dryRun THEN {Ok("dryRun")}
                              ELSE {Ok("found"), Throws("search failed")}
      [] type = "generate" -> IF dryRun THEN {Ok("dryRun")}
                              ELSE {Throws("No AI model configured"), Ok("generated"),
                                    Throws("completion failed")}
      [] type = "edit"     -> IF dryRun THEN {Ok("dryRun")} ELSE {Ok("edited")}
      [] type = "test"     -> IF dryRun THEN {Ok("dryRun")}
                              ELSE {Ok("testsRun"), Ok("testsNotRun")}
      [] type = "verify"   -> IF dryRun THEN {Ok("dryRun")} ELSE {Ok("verified")}
      [] OTHER             -> {Throws("Unknown step type")}

\* What the promise of executeStep can settle with: the collaborators (search,
\* completion, command service) succeed or fail as they please.
executeStep(type, dryRun) ==
    IF dryRun THEN {Ok("dryRun")}
    ELSE CASE type = "search"   -> {Ok("found"), Throws("search failed")}
           [] type = "generate" -> {Throws("No AI model configured"), Ok("generated"),
                                    Throws("completion failed")}
           [] type = "edit"     -> {Ok("edited")}
           [] type = "test"     -> {Ok("testsRun"), Ok("testsNotRun")}
           [] type = "verify"   -> {Ok("verified")}
           [] OTHER             -> {Throws("Unknown step type")}

\* The calls the handler of a step makes to its collaborators when executeStep
\* enters it: none in a dry run, none by the stubs (edit, verify), none for a type
\* without a handler.
HandlerCalls(type, dryRun) ==
    IF dryRun THEN <<>>
    ELSE CASE type = "search"   -> <<"contextService.search">>
           [] type = "generate" -> <<"aiService.getActiveModel">>
           [] type = "test"     -> <<"commandService.executeCommand">>
           [] OTHER             -> <<>>

\* The call executeGenerateStep makes once it has found an active model; its
\* outcome tells whether it did.
HandlerCallsLater(type, dryRun, outcome) ==
    IF ~dryRun /\ type = "generate" /\ outcome # Throws("No AI model configured")
    THEN <<"aiService.requestCompletion">>
    ELSE <<>>

\* The entries of collaboratorCalls for the calls step i makes.
CallsOf(i, methods) == [k \in 1..Len(methods) |-> <<i, methods[k]>>]

----------------------------------------------------------------------------
(* executeSteps *)

\* `Step ${step.name} failed: ${message}`
StepFailedMessage(name, message) == <<"Step", name, "failed", message>>

\* LoopHead without the test of token.isCancellationRequested.
LoopHeadNoCancellationCheck(S, taskId, task, i, cancelled) ==
    IF i < Len(task.steps)
    THEN [S  |-> updateTask(
                    updateStep(S, taskId, task.steps[i + 1].id, [status |-> "Running"]),
                    taskId, [currentStep |-> i]),
          pc |-> "await", i |-> i]
    ELSE [S  |-> updateTask(S, taskId, [status |-> "Completed"]),
          pc |-> "returned", i |-> i]

\* LoopHead with the loop test i < task.steps.length - 1.
LoopHeadOffByOne(S, taskId, task, i, cancelled) ==
    IF i < Len(task.steps) - 1
    THEN IF cancelled
         THEN [S  |-> updateTask(S, taskId, [status |-> "Cancelled"]),
               pc |-> "returned", i |-> i]
         ELSE [S  |-> updateTask(
                        updateStep(S, taskId, task.steps[i + 1].id, [status |-> "Running"]),
                        taskId, [currentStep |-> i]),
               pc |-> "await", i |-> i]
    ELSE [S  |-> updateTask(S, taskId, [status |-> "Completed"]),
          pc |-> "returned", i |-> i]

\* From the loop test of iteration i to the next await or to the return.
LoopHead(S, taskId, task, i, cancelled) ==
    IF i < Len(task.steps)
    THEN IF cancelled
         THEN [S  |-> updateTask(S, taskId, [status |-> "Cancelled"]),
               pc |-> "returned", i |-> i]
         ELSE [S  |-> updateTask(
                        updateStep(S, taskId, task.steps[i + 1].id, [status |-> "Running"]),
                        taskId, [currentStep |-> i]),
               pc |-> "await", i |-> i]
    ELSE [S  |-> updateTask(S, taskId, [status |-> "Completed"]),
          pc |-> "returned", i |-> i]

\* The catch block's stopOnError branch.
FailTask(S, taskId, step, message, i) ==
    [S  |-> updateTask(S, taskId,
               [status |-> "Failed", error |-> StepFailedMessage(step.name, message)]),
     pc |-> "returned", i |-> i]

\* AfterStep that goes on to the next step whatever stopOnError says.
AfterStepIgnoringStopOnError(S, taskId, task, i, options, outcome, cancelled) ==
    LET step == task.steps[i + 1]
    IN  IF outcome.ok
        THEN LoopHead(
                updateStep(S, taskId, step.id,
                           [status |-> "Completed", result |-> outcome.value]),
                taskId, task, i + 1, cancelled)
        ELSE LoopHead(
                updateStep(S, taskId, step.id,
                           [status |-> "Failed", error |-> outcome.value]),
                taskId, task, i + 1, cancelled)

\* AfterStep that fails the task on every failed step.
AfterStepAlwaysStopping(S, taskId, task, i, options, outcome, cancelled) ==
    LET step == task.steps[i + 1]
    IN  IF outcome.ok
        THEN LoopHead(
                updateStep(S, taskId, step.id,
                           [status |-> "Completed", result |-> outcome.value]),
                taskId, task, i + 1, cancelled)
        ELSE FailTask(
                updateStep(S, taskId, step.id,
                           [status |-> "Failed", error |-> outcome.value]),
                taskId, step, outcome.value, i)

\* AfterStep that does not record the success of a step before the next one.
AfterStepNotRecordingSuccess(S, taskId, task, i, options, outcome, cancelled) ==
    LET step == task.steps[i + 1]
    IN  IF outcome.ok
        THEN LoopHead(S, taskId, task, i + 1, cancelled)
        ELSE LET S1 == updateStep(S, taskId, step.id,
                                  [status |-> "Failed", error |-> outcome.value])
             IN  IF options.stopOnError
                 THEN FailTask(S1, taskId, step, outcome.value, i)
                 ELSE LoopHead(S1, taskId, task, i + 1, cancelled)

\* AfterStep without the catch block: what the handler throws leaves the loop.
AfterStepWithoutCatch(S, taskId, task, i, options, outcome, cancelled) ==
    LET step == task.steps[i + 1]
    IN  IF outcome.ok
        THEN LoopHead(
                updateStep(S, taskId, step.id,
                           [status |-> "Completed", result |-> outcome.value]),
                taskId, task, i + 1, cancelled)
        ELSE [S |-> S, pc |-> "rejected", i |-> i]

\* From the settling of step i's promise to the next await or to the return.
AfterStep(S, taskId, task, i, options, outcome, cancelled) ==
    LET step == task.steps[i + 1]
    IN  IF outcome.ok
        THEN LoopHead(
                updateStep(S, taskId, step.id,
                           [status |-> "Completed", result |-> outcome.value]),
                taskId, task, i + 1, cancelled)
        ELSE LET S1 == updateStep(S, taskId, step.id,
                                  [status |-> "Failed", error |-> outcome.value])
             IN  IF options.stopOnError
                 THEN FailTask(S1, taskId, step, outcome.value, i)
                 ELSE LoopHead(S1, taskId, task, i + 1, cancelled)

----------------------------------------------------------------------------
(* planTask *)

\* What matters of a response text: the brackets, the comma, a JSON object that
\* is a plan step ("o") and any other run of characters ("x").
Tokens == {"[", "]", ",", "o", "x"}

\* Longest response text, in tokens.
MaxTextLen == 4

Texts == UNION {[1..n -> Tokens] : n \in 0..MaxTextLen}

\* The value JSON.parse gives for the object "o".
ParsedObject == [type |-> "search", description |-> 0]

\* planText.match(/\[[\s\S]*\]/): null (NoMatch), or the text from the first "["
\* to the last "]" when the one comes before the other.
NoMatch == <<>>

Match(planText) ==
    LET opens  == {k \in 1..Len(planText) : planText[k] = "["}
        closes == {k \in 1..Len(planText) : planText[k] = "]"}
    IN  IF opens = {} \/ closes = {}
        THEN NoMatch
        ELSE LET first == CHOOSE k \in opens : \A j \in opens : k <= j
                 last  == CHOOSE k \in closes : \A j \in closes : j <= k
             IN  IF first < last THEN SubSeq(planText, first, last) ELSE NoMatch

\* A JSON value at the head of s: [ok, value, rest].
NotJSON == [ok |-> FALSE, value |-> <<>>, rest |-> <<>>]

RECURSIVE ParseValue(_), ParseElements(_, _)

ParseValue(s) ==
    IF s = <<>> THEN NotJSON
    ELSE CASE Head(s) = "o" -> [ok |-> TRUE, value |-> ParsedObject, rest |-> Tail(s)]
           [] Head(s) = "[" ->
                IF Len(s) >= 2 /\ s[2] = "]"
                THEN [ok |-> TRUE, value |-> <<>>, rest |-> SubSeq(s, 3, Len(s))]
                ELSE ParseElements(Tail(s), <<>>)
           [] OTHER -> NotJSON

\* The elements of an array after its "[" or after a ",", up to its "]".
ParseElements(s, elements) ==
    LET v == ParseValue(s)
    IN  IF ~v.ok \/ v.rest = <<>> THEN NotJSON
        ELSE CASE Head(v.rest) = "]" ->
                    [ok |-> TRUE, value |-> Append(elements, v.value), rest |-> Tail(v.rest)]
               [] Head(v.rest) = "," ->
                    ParseElements(Tail(v.rest), Append(elements, v.value))
               [] OTHER -> NotJSON

\* JSON.parse(text): the value, or a SyntaxError.
JSONParse(text) ==
    LET v == ParseValue(text)
    IN  IF v.ok /\ v.rest = <<>> THEN Ok(v.value) ELSE Throws("SyntaxError")

\* The plan planTask returns when the response has no match.
FallbackPlan == PlanOf(<<"search", "generate", "edit", "verify">>)

\* The body of the try block of planTask after the await: the steps it returns
\* or what it throws.
PlanFromResponse(planText) ==
    LET jsonMatch == Match(planText)
    IN  IF jsonMatch # NoMatch
        THEN JSONParse(jsonMatch)
        ELSE Ok(FallbackPlan)

\* The activation of planTask before the call.
PlannerIdle ==
    [pc |-> "idle", activeModel |-> NoValue, requests |-> 0, completion |-> "none",
     response |-> <<>>, steps |-> <<>>, error |-> NoValue]

----------------------------------------------------------------------------
(* The sandbox: commands and the allow-list.  A string is the sequence of  *)
(* its characters.                                                         *)

\* s.startsWith(prefix), s.endsWith(suffix)
StartsWith(s, prefix) ==
    Len(prefix) <= Len(s) /\ SubSeq(s, 1, Len(prefix)) = prefix

EndsWith(s, suffix) ==
    Len(suffix) <= Len(s) /\ SubSeq(s, Len(s) - Len(suffix) + 1, Len(s)) = suffix

\* new RegExp(source).test(s) for a source without special characters: s has
\* source as a substring.  (The allow-lists explored hold only such sources.)
RegExpTest(source, s) ==
    \E i \in 0..(Len(s) - Len(source)) : SubSeq(s, i + 1, i + Len(source)) = source

\* defaultAllowed
DefaultAllowed ==
    << <<"n", "p", "m", " ", "t", "e", "s", "t">>,
       <<"n", "p", "m", " ", "r", "u", "n", " ", "t", "e", "s", "t">>,
       <<"n", "p", "x", " ", "j", "e", "s", "t">>,
       <<"n", "p", "x", " ", "m", "o", "c", "h", "a">>,
       <<"n", "p", "x", " ", "t", "s", "c">>,
       <<"n", "o", "d", "e">>,
       <<"p", "y", "t", "h", "o", "n", " ", "-", "m", " ", "p", "y", "t", "e", "s", "t">> >>

\* isCommandAllowed that lets every command pass.
isCommandAllowedAlways(command, options) == TRUE

\* isCommandAllowed(command, options.allowedCommands); an option that is not
\* given is a field the options record does not have.
isCommandAllowed(command, options) ==
    IF "allowedCommands" \notin DOMAIN options \/ Len(options.allowedCommands) = 0
    THEN \E k \in 1..Len(DefaultAllowed) : StartsWith(command, DefaultAllowed[k])
    ELSE \E k \in 1..Len(options.allowedCommands) :
            LET allowed == options.allowedCommands[k]
            IN  IF StartsWith(allowed, <<"/">>) /\ EndsWith(allowed, <<"/">>)
                THEN RegExpTest(SubSeq(allowed, 2, Len(allowed) - 1), command)
                ELSE StartsWith(command, allowed)

\* The loop of parseCommand from character i on; st is its local state.
RECURSIVE parseCommandFrom(_, _, _)

parseCommandFrom(command, i, st) ==
    IF i > Len(command)
    THEN IF st.current # <<>> THEN Append(st.parts, st.current) ELSE st.parts
    ELSE LET char == command[i]
         IN  parseCommandFrom(command, i + 1,
                IF char \in {"\"", "'"} /\ ~st.inQuotes
                THEN [st EXCEPT !.inQuotes = TRUE, !.quoteChar = char]
                ELSE IF char = st.quoteChar /\ st.inQuotes
                THEN [st EXCEPT !.inQuotes = FALSE, !.quoteChar = ""]
                ELSE IF char = " " /\ ~st.inQuotes
                THEN IF st.current # <<>>
                     THEN [st EXCEPT !.parts = Append(@, st.current), !.current = <<>>]
                     ELSE st
                ELSE [st EXCEPT !.current = Append(@, char)])

parseCommand(command) ==
    parseCommandFrom(command, 1,
        [parts |-> <<>>, current |-> <<>>, inQuotes |-> FALSE, quoteChar |-> ""])

\* An id that also depends on the calls made before.
generateSandboxIdCounting(content) ==
    <<"sha256", content, Cardinality(DOMAIN sandboxCalls)>>

\* generateSandboxId(content): the first 16 hex digits of the SHA-256 of the
\* content, a value that depends on the content only (collisions left aside).
generateSandboxId(content) == <<"sha256", content>>

\* File contents are sequences of lexemes; "ws" is one whitespace character and
\* "x" any text no pattern looks at.  A dangerous pattern is a sequence of
\* lexemes, each taken once ("1"), zero or more times ("*": \s*) or one or more
\* times ("+": \s+); the lexemes 'child_process' and 'fs' are the quoted names.
Once(lexeme) == [lexeme |-> lexeme, rep |-> "1"]
Ws(rep) == [lexeme |-> "ws", rep |-> rep]

dangerousPatterns ==
    << <<Once("eval"), Ws("*"), Once("(")>>,
       <<Once("Function"), Ws("*"), Once("(")>>,
       <<Once("require"), Ws("*"), Once("("), Ws("*"), Once("'child_process'")>>,
       <<Once("require"), Ws("*"), Once("("), Ws("*"), Once("'fs'")>>,
       <<Once("process.exit")>>,
       <<Once("rm"), Ws("+"), Once("-rf")>>,
       <<Once("rmdir"), Ws("+"), Once("/s")>> >>

\* The pattern from its element k on matches the content from position i on.
RECURSIVE MatchAt(_, _, _, _)

MatchAt(pattern, k, content, i) ==
    IF k > Len(pattern)
    THEN TRUE
    ELSE LET here == i <= Len(content) /\ content[i] = pattern[k].lexeme
         IN  CASE pattern[k].rep = "1" ->
                    here /\ MatchAt(pattern, k + 1, content, i + 1)
               [] pattern[k].rep = "*" ->
                    \/ MatchAt(pattern, k + 1, content, i)
                    \/ here /\ MatchAt(pattern, k, content, i + 1)
               [] pattern[k].rep = "+" ->
                    here /\ (\/ MatchAt(pattern, k + 1, content, i + 1)
                             \/ MatchAt(pattern, k, content, i + 1))

\* pattern.test(content): the pattern matches somewhere in the content.
PatternTest(pattern, content) ==
    \E i \in 1..(Len(content) + 1) : MatchAt(pattern, 1, content, i)

\* The error pushed for a file and a pattern, and the one of the TypeScript check.
DangerousError(file, pattern) ==
    [kind |-> "Dangerous pattern detected", uri |-> file.uri, pattern |-> pattern]

TypeScriptError ==
    [kind |-> "TypeScript validation failed", uri |-> <<>>, pattern |-> <<>>]

\* The inner loop of validateChanges: the errors of one file, in pattern order.
FileErrors(file) ==
    LET all == [p \in 1..Len(dangerousPatterns) |->
                    DangerousError(file, dangerousPatterns[p])]
        Hit(e) == PatternTest(e.pattern, file.content)
    IN  SelectSeq(all, Hit)

\* The outer loop from file i on.
RECURSIVE DangerousErrorsFrom(_, _)

DangerousErrorsFrom(files, i) ==
    IF i > Len(files) THEN <<>>
    ELSE FileErrors(files[i]) \o DangerousErrorsFrom(files, i + 1)

\* A scan that stops at the first error.
DangerousErrorsFirstOnly(files) ==
    LET all == DangerousErrorsFrom(files, 1)
    IN  IF all = <<>> THEN <<>> ELSE <<all[1]>>

DangerousErrors(files) == DangerousErrorsFrom(files, 1)

\* files.filter(f => f.uri.path.endsWith('.ts') || f.uri.path.endsWith('.tsx'))
tsFiles(files) ==
    LET IsTs(f) == \/ EndsWith(f.uri, <<".", "t", "s">>)
                   \/ EndsWith(f.uri, <<".", "t", "s", "x">>)
    IN  SelectSeq(files, IsTs)

\* The script validateChanges gives to executeInVM.  It requires 'typescript'
\* and then reads a variable, code, that it never declares: the script throws,
\* with or without the compiler, and node exits with code 1.
TypeScriptCheck == <<"require('typescript')", "transpileModule(code)">>

\* The exit codes a script can end with by itself.
ScriptExitCodes(content) ==
    IF content = TypeScriptCheck THEN {1} ELSE {0, 1}

----------------------------------------------------------------------------
(* The sandbox: child processes, results, activations *)

\* The ids of the calls of executeInVM and executeTests.
CallIds == {"c1", "c2"}

\* The exit code null of a process that a signal ended (exit codes are 0..255).
Null == -1

\* error.code of the error of a spawn that failed: the string 'ENOENT', which is
\* no exit code; it stands here as its errno.
ENOENT == -2

\* The ChildProcess that spawn() or exec() returns and the process behind it:
\* running, exited (its close event is still to come), spawnFailed (there is no
\* process; the error event is still to come) or closed.  killed is the field of
\* that name: a signal was delivered by kill().
NewChild(program, env, state, ignoresSIGTERM) ==
    [program |-> program, env |-> env, state |-> state, killed |-> FALSE,
     signals |-> <<>>, ignoresSIGTERM |-> ignoresSIGTERM, exitCode |-> Null]

\* { ...a, ...b }: the entries of a, replaced and extended by those of b.
ObjectSpread(a, b) ==
    [k \in DOMAIN a \cup DOMAIN b |-> IF k \in DOMAIN b THEN b[k] ELSE a[k]]

\* options.env, which may be absent.
OptionsEnv(options) == IF "env" \in DOMAIN options THEN options.env ELSE <<>>

\* An env object of executeInVM that spreads options.env last.
VMEnvCallerLast(processEnv, options) ==
    ObjectSpread(ObjectSpread([NODE_ENV |-> "production",
                               NPM_TOKEN |-> NoValue, GITHUB_TOKEN |-> NoValue],
                              processEnv),
                 OptionsEnv(options))

\* The env object executeInVM builds, and the one executeTests builds.
VMEnv(processEnv, options) ==
    ObjectSpread(ObjectSpread(processEnv, OptionsEnv(options)),
                 [NODE_ENV |-> "production",
                  NPM_TOKEN |-> NoValue, GITHUB_TOKEN |-> NoValue])

TestsEnv(processEnv, options) ==
    ObjectSpread(ObjectSpread(processEnv, OptionsEnv(options)), [NODE_ENV |-> "test"])

\* The environment that spawn() and exec() give the process: the entries of
\* the env object whose value is not undefined.
envPairs(env) == [k \in {n \in DOMAIN env : env[n] # NoValue} |-> env[k]]

\* child.kill(signal): the signal is delivered, and killed set, when there is a
\* process that has not exited; else nothing happens.
kill(child, signal) ==
    IF child.state = "running"
    THEN [child EXCEPT !.killed = TRUE, !.signals = Append(@, signal)]
    ELSE child

\* The process has been sent a signal that ends it.
Doomed(child) ==
    \/ "SIGKILL" \in Range(child.signals)
    \/ "SIGTERM" \in Range(child.signals) /\ ~child.ignoresSIGTERM

\* A SandboxExecutionResult (stdout and duration left out), and no result yet.
Result(success, exitCode, stderr) ==
    [success |-> success, exitCode |-> exitCode, stderr |-> stderr]

NoResult == <<>>

\* code || 0
OrZero(code) == IF code = Null THEN 0 ELSE code

\* The activation of a call: what it was called with and its local state.
\* token is the caller's token ("none", "live", "cancelled"); timer is the timer
\* of the call's timeout, execTimer the one exec() keeps for its own timeout
\* option, grace the number of 5-second timers pending; listener is the call's
\* listener on the token; cleanup is the rm of cleanupSandbox.
NewCall(op, content, options, withToken) ==
    [op |-> op, content |-> content, options |-> options,
     token |-> IF withToken THEN "live" ELSE "none",
     sandboxId |-> generateSandboxId(content), executionId |-> <<>>,
     pc |-> "createFolder", result |-> NoResult,
     timer |-> "none", execTimer |-> "none", grace |-> 0,
     listener |-> "none", cleanup |-> "none"]

\* What spawn(cmd, args) does: it throws when cmd is not a string (the command
\* has no part), else it returns a child whose process starts or fails to.
SpawnOutcomes(parts) ==
    IF parts = <<>> THEN {"throws"} ELSE {"spawned", "error"}

\* The activation of validateChanges before the call.
ValidationIdle ==
    [pc |-> "idle", files |-> <<>>, errors |-> <<>>, check |-> "", result |-> NoResult]

----------------------------------------------------------------------------
(* Actions *)

Init ==
    /\ tasks = <<>>
    /\ taskCancellations = {}
    /\ cancelRequested = <<>>
    /\ callerToken = <<>>
    /\ frame = <<>>
    /\ invoked = <<>>
    /\ settled = <<>>
    /\ onDidTaskUpdate = <<>>
    /\ onDidTaskComplete = <<>>
    /\ disposed = FALSE
    /\ call = <<>>
    /\ cancelTaskAt = <<>>
    /\ collaboratorCalls = <<>>
    /\ planner = PlannerIdle
    /\ sandboxCalls = <<>>
    /\ children = <<>>
    /\ activeExecutions = <<>>
    /\ directories = {}
    /\ now = 0
    /\ validation = ValidationIdle

\* generateUuid(): a value no task has yet; which one does not matter.
generateUuid == CHOOSE u \in Uuids : u \notin DOMAIN tasks

\* executeTask that creates the task Pending.
ExecuteTaskPending(taskId, plan, maxSteps, stopOnError, dryRun, withToken) ==
    /\ taskId \notin DOMAIN tasks
    /\ LET steps == NewSteps(plan, maxSteps)
           task  == [status |-> "Pending", steps |-> steps, currentStep |-> 0,
                     error |-> NoMessage]
           S0    == [tasks |-> tasks @@ (taskId :> task),
                     upd   |-> onDidTaskUpdate @@ (taskId :> <<task>>)]
           r     == LoopHead(S0, taskId, task, 0, FALSE)
       IN  /\ tasks' = r.S.tasks
           /\ onDidTaskUpdate' = r.S.upd
           /\ frame' = frame @@ (taskId :>
                  [task |-> task, pc |-> r.pc, i |-> r.i,
                   options |-> [stopOnError |-> stopOnError, dryRun |-> dryRun]])
           /\ invoked' = invoked @@ (taskId :> IF r.pc = "await" THEN <<r.i>> ELSE <<>>)
           /\ collaboratorCalls' = collaboratorCalls @@ (taskId :>
                  IF r.pc = "await"
                  THEN CallsOf(r.i, HandlerCalls(steps[r.i + 1].type, dryRun))
                  ELSE <<>>)
    /\ settled' = settled @@ (taskId :> <<>>)
    /\ taskCancellations' = taskCancellations \cup {taskId}
    /\ cancelRequested' = cancelRequested @@ (taskId :> FALSE)
    /\ callerToken' = callerToken @@ (taskId :> IF withToken THEN "live" ELSE "none")
    /\ onDidTaskComplete' = onDidTaskComplete @@ (taskId :> <<>>)
    /\ call' = call @@ (taskId :> [plan |-> plan, maxSteps |-> maxSteps])
    /\ cancelTaskAt' = cancelTaskAt @@ (taskId :> NoValue)
    /\ UNCHANGED <<disposed, planner>>
    /\ UNCHANGED sandboxVars

\* executeTask, with the part of executeSteps that runs before its first await.
ExecuteTask(taskId, plan, maxSteps, stopOnError, dryRun, withToken) ==
    /\ taskId \notin DOMAIN tasks
    /\ LET steps == NewSteps(plan, maxSteps)
           task  == [status |-> "Running", steps |-> steps, currentStep |-> 0,
                     error |-> NoMessage]
           S0    == [tasks |-> tasks @@ (taskId :> task),
                     upd   |-> onDidTaskUpdate @@ (taskId :> <<task>>)]
           r     == LoopHead(S0, taskId, task, 0, FALSE)
       IN  /\ tasks' = r.S.tasks
           /\ onDidTaskUpdate' = r.S.upd
           /\ frame' = frame @@ (taskId :>
                  [task |-> task, pc |-> r.pc, i |-> r.i,
                   options |-> [stopOnError |-> stopOnError, dryRun |-> dryRun]])
           /\ invoked' = invoked @@ (taskId :> IF r.pc = "await" THEN <<r.i>> ELSE <<>>)
           /\ collaboratorCalls' = collaboratorCalls @@ (taskId :>
                  IF r.pc = "await"
                  THEN CallsOf(r.i, HandlerCalls(steps[r.i + 1].type, dryRun))
                  ELSE <<>>)
    /\ settled' = settled @@ (taskId :> <<>>)
    /\ taskCancellations' = taskCancellations \cup {taskId}
    /\ cancelRequested' = cancelRequested @@ (taskId :> FALSE)
    /\ callerToken' = callerToken @@ (taskId :> IF withToken THEN "live" ELSE "none")
    /\ onDidTaskComplete' = onDidTaskComplete @@ (taskId :> <<>>)
    /\ call' = call @@ (taskId :> [plan |-> plan, maxSteps |-> maxSteps])
    /\ cancelTaskAt' = cancelTaskAt @@ (taskId :> NoValue)
    /\ UNCHANGED <<disposed, planner>>
    /\ UNCHANGED sandboxVars

\* The promise of executeStep settles and executeSteps resumes.
StepSettles(taskId) ==
    /\ taskId \in DOMAIN frame
    /\ frame[taskId].pc = "await"
    /\ LET f == frame[taskId]
       IN  \E outcome \in executeStep(f.task.steps[f.i + 1].type, f.options.dryRun) :
             \E r \in {AfterStep([tasks |-> tasks, upd |-> onDidTaskUpdate], taskId,
                                 f.task, f.i, f.options, outcome, cancelRequested[taskId])} :
                 /\ tasks' = r.S.tasks
                 /\ onDidTaskUpdate' = r.S.upd
                 /\ frame' = [frame EXCEPT ![taskId].pc = r.pc, ![taskId].i = r.i]
                 /\ invoked' = [invoked EXCEPT ![taskId] =
                                   IF r.pc = "await" THEN Append(@, r.i) ELSE @]
                 /\ settled' = [settled EXCEPT ![taskId] = Append(@, <<f.i, outcome>>)]
                 /\ collaboratorCalls' = [collaboratorCalls EXCEPT ![taskId] =
                       @ \o CallsOf(f.i, HandlerCallsLater(f.task.steps[f.i + 1].type,
                                                           f.options.dryRun, outcome))
                         \o (IF r.pc = "await"
                             THEN CallsOf(r.i, HandlerCalls(f.task.steps[r.i + 1].type,
                                                            f.options.dryRun))
                             ELSE <<>>)]
    /\ UNCHANGED <<taskCancellations, cancelRequested, callerToken, onDidTaskComplete,
                   disposed, call, cancelTaskAt, planner>>
    /\ UNCHANGED sandboxVars

\* The .then callback of executeTask, once executeSteps has returned.  (The
\* .catch callback never runs: executeSteps catches what a handler throws, and
\* nothing else in it throws.)
TaskCompletes(taskId) ==
    /\ taskId \in DOMAIN frame
    /\ frame[taskId].pc = "returned"
    /\ frame' = [frame EXCEPT ![taskId].pc = "done"]
    /\ onDidTaskComplete' =
          IF taskId \in DOMAIN tasks
          THEN [onDidTaskComplete EXCEPT ![taskId] = Append(@, tasks[taskId])]
          ELSE onDidTaskComplete
    /\ UNCHANGED <<tasks, taskCancellations, cancelRequested, callerToken, invoked,
                   settled, onDidTaskUpdate, disposed, call, cancelTaskAt,
                   collaboratorCalls, planner>>
    /\ UNCHANGED sandboxVars

\* cancelTask that also fires the completion event.
CancelTaskFiringComplete(taskId) ==
    /\ taskId \in taskCancellations
    /\ cancelRequested' = [cancelRequested EXCEPT ![taskId] = TRUE]
    /\ LET S == updateTask([tasks |-> tasks, upd |-> onDidTaskUpdate], taskId,
                           [status |-> "Cancelled"])
       IN  /\ tasks' = S.tasks
           /\ onDidTaskUpdate' = S.upd
           /\ onDidTaskComplete' =
                 [onDidTaskComplete EXCEPT ![taskId] = Append(@, S.tasks[taskId])]
    /\ taskCancellations' = taskCancellations \ {taskId}
    /\ cancelTaskAt' = [cancelTaskAt EXCEPT ![taskId] = tasks[taskId].status]
    /\ UNCHANGED <<callerToken, frame, invoked, settled, disposed, call,
                   collaboratorCalls, planner>>
    /\ UNCHANGED sandboxVars

\* cancelTask that cancels every source of the table, as dispose does.
CancelTaskCancellingAll(taskId) ==
    /\ taskId \in taskCancellations
    /\ cancelRequested' = [t \in DOMAIN cancelRequested |->
                              (t \in taskCancellations) \/ cancelRequested[t]]
    /\ LET S == updateTask([tasks |-> tasks, upd |-> onDidTaskUpdate], taskId,
                           [status |-> "Cancelled"])
       IN  /\ tasks' = S.tasks
           /\ onDidTaskUpdate' = S.upd
    /\ taskCancellations' = taskCancellations \ {taskId}
    /\ cancelTaskAt' = [cancelTaskAt EXCEPT ![taskId] = tasks[taskId].status]
    /\ UNCHANGED <<callerToken, frame, invoked, settled, onDidTaskComplete, disposed,
                   call, collaboratorCalls, planner>>
    /\ UNCHANGED sandboxVars

\* cancelTask(taskId) for a task that has a cancellation source.
CancelTask(taskId) ==
    /\ taskId \in taskCancellations
    /\ cancelRequested' = [cancelRequested EXCEPT ![taskId] = TRUE]
    /\ LET S == updateTask([tasks |-> tasks, upd |-> onDidTaskUpdate], taskId,
                           [status |-> "Cancelled"])
       IN  /\ tasks' = S.tasks
           /\ onDidTaskUpdate' = S.upd
    /\ taskCancellations' = taskCancellations \ {taskId}
    /\ cancelTaskAt' = [cancelTaskAt EXCEPT ![taskId] = tasks[taskId].status]
    /\ UNCHANGED <<callerToken, frame, invoked, settled, onDidTaskComplete, disposed,
                   call, collaboratorCalls, planner>>
    /\ UNCHANGED sandboxVars

\* The caller's token is cancelled: the listener executeTask registered runs.
CancelCallerToken(taskId) ==
    /\ taskId \in DOMAIN callerToken
    /\ callerToken[taskId] = "live"
    /\ callerToken' = [callerToken EXCEPT ![taskId] = "cancelled"]
    /\ cancelRequested' = [cancelRequested EXCEPT ![taskId] = TRUE]
    /\ UNCHANGED <<tasks, taskCancellations, frame, invoked, settled, onDidTaskUpdate,
                   onDidTaskComplete, disposed, call, cancelTaskAt, collaboratorCalls,
                   planner>>
    /\ UNCHANGED sandboxVars

\* dispose(): cancels every source still in the table.
Dispose ==
    /\ cancelRequested' = [t \in DOMAIN cancelRequested |->
                              (t \in taskCancellations) \/ cancelRequested[t]]
    /\ disposed' = TRUE
    /\ UNCHANGED <<tasks, taskCancellations, callerToken, frame, invoked, settled,
                   onDidTaskUpdate, onDidTaskComplete, call, cancelTaskAt,
                   collaboratorCalls, planner>>
    /\ UNCHANGED sandboxVars

agentVars == <<tasks, taskCancellations, cancelRequested, callerToken, frame, invoked,
               settled, onDidTaskUpdate, onDidTaskComplete, disposed, call, cancelTaskAt,
               collaboratorCalls>>

\* planTask up to its await: it throws when getActiveModel() gives nothing, and
\* else requests a completion.
PlanTask(activeModelId) ==
    /\ planner.pc = "idle"
    /\ planner' =
          IF activeModelId = NoValue
          THEN [planner EXCEPT !.pc = "threw", !.error = "No AI model configured"]
          ELSE [planner EXCEPT !.pc = "await", !.activeModel = activeModelId,
                               !.requests = @ + 1]
    /\ UNCHANGED <<agentVars, sandboxVars>>

\* The completion request resolves with a response of text planText.
CompletionResolves(planText) ==
    /\ planner.pc = "await"
    /\ \E r \in {PlanFromResponse(planText)} :
          planner' =
             IF r.ok
             THEN [planner EXCEPT !.pc = "returned", !.completion = "resolved",
                                  !.response = planText, !.steps = r.value]
             ELSE [planner EXCEPT !.pc = "threw", !.completion = "resolved",
                                  !.response = planText, !.error = r.value]
    /\ UNCHANGED <<agentVars, sandboxVars>>

\* The completion request rejects: the catch block logs the error and throws it.
CompletionRejects ==
    /\ planner.pc = "await"
    /\ planner' = [planner EXCEPT !.pc = "threw", !.completion = "rejected",
                                  !.error = "completion failed"]
    /\ UNCHANGED <<agentVars, sandboxVars>>

----------------------------------------------------------------------------
(* Actions of the sandbox *)

nonSandboxVars == <<agentVars, planner>>

\* The most 5-second timers a child has pending at once.
MaxGraceTimers == 2

\* map.delete(key)
MapDelete(map, key) == [k \in DOMAIN map \ {key} |-> map[k]]

\* The clock of Date.now() advances by a millisecond, up to MaxNow.
MaxNow == 1

Tick ==
    /\ now < MaxNow
    /\ now' = now + 1
    /\ UNCHANGED <<sandboxCalls, children, activeExecutions, directories, validation>>
    /\ UNCHANGED nonSandboxVars

\* executeTests up to its first await: the allow-list check, then createFolder.
ExecuteTests(c, command, options, withToken) ==
    /\ c \notin DOMAIN sandboxCalls
    /\ LET activation == NewCall("executeTests", command, options, withToken)
       IN  sandboxCalls' = sandboxCalls @@ (c :>
              IF isCommandAllowed(command, options)
              THEN activation
              ELSE [activation EXCEPT !.pc = "returned",
                                !.result = Result(FALSE, 1, "Command not allowed")])
    /\ UNCHANGED <<children, activeExecutions, directories, now, validation>>
    /\ UNCHANGED nonSandboxVars

\* createFolder of executeTests settles.  When it rejects, the catch block
\* returns a failed result.  Else the executor of the promise runs: spawn, the
\* registration of the child, the timeout timer and the listener on the token.
\* What spawn throws rejects the promise that executeTests returns.
TestsCreateFolderSettles(c, ok, processEnv) ==
    /\ c \in DOMAIN sandboxCalls
    /\ sandboxCalls[c].op = "executeTests"
    /\ sandboxCalls[c].pc = "createFolder"
    /\ LET activation  == sandboxCalls[c]
           parts == parseCommand(activation.content)
           executionId == <<activation.sandboxId, now>>
       IN  IF ~ok
           THEN /\ sandboxCalls' = [sandboxCalls EXCEPT ![c] =
                      [activation EXCEPT !.pc = "returned",
                                   !.result = Result(FALSE, 1, "createFolder failed")]]
                /\ UNCHANGED <<children, activeExecutions, directories>>
           ELSE /\ directories' = directories \cup {activation.sandboxId}
                /\ \E outcome \in SpawnOutcomes(parts) :
                      IF outcome = "throws"
                      THEN /\ sandboxCalls' = [sandboxCalls EXCEPT ![c].pc = "rejected"]
                           /\ UNCHANGED <<children, activeExecutions>>
                      ELSE /\ \E ignoresSIGTERM \in
                                    (IF outcome = "spawned" THEN BOOLEAN ELSE {FALSE}) :
                                 children' = children @@ (c :>
                                    NewChild(parts[1],
                                             envPairs(TestsEnv(processEnv, activation.options)),
                                             IF outcome = "spawned" THEN "running"
                                                                    ELSE "spawnFailed",
                                             ignoresSIGTERM))
                           /\ activeExecutions' = (executionId :> c) @@ activeExecutions
                           /\ sandboxCalls' = [sandboxCalls EXCEPT ![c] =
                                 [activation EXCEPT !.pc = "spawned",
                                              !.executionId = executionId,
                                              !.timer = "set",
                                              !.listener = IF activation.token = "none"
                                                           THEN "none" ELSE "registered"]]
    /\ UNCHANGED <<now, validation>>
    /\ UNCHANGED nonSandboxVars

\* The process of a child ends: by itself with code 0 or 1, or with code null
\* by a signal that ends it.
ChildExits(c, code) ==
    /\ c \in DOMAIN children
    /\ children[c].state = "running"
    /\ code = Null => Doomed(children[c])
    /\ code # Null => \/ sandboxCalls[c].op = "executeTests"
                      \/ code \in ScriptExitCodes(sandboxCalls[c].content)
    /\ children' = [children EXCEPT ![c].state = "exited", ![c].exitCode = code]
    /\ UNCHANGED <<sandboxCalls, activeExecutions, directories, now, validation>>
    /\ UNCHANGED nonSandboxVars

\* The handlers of executeTests for the close event (settledWith = "close") and
\* for the error event: they clear the timeout, dispose the listener, remove
\* the registry entry, start the cleanup without awaiting it, and resolve.
TestsHandler(c, settledWith) ==
    /\ c \in DOMAIN children
    /\ sandboxCalls[c].op = "executeTests"
    /\ children[c].state = (IF settledWith = "close" THEN "exited" ELSE "spawnFailed")
    /\ LET activation == sandboxCalls[c]
           code == children[c].exitCode
       IN  sandboxCalls' = [sandboxCalls EXCEPT ![c] =
              [activation EXCEPT !.timer = IF @ = "set" THEN "cleared" ELSE @,
                           !.listener = IF @ = "none" THEN "none" ELSE "disposed",
                           !.cleanup = "pending",
                           !.pc = "returned",
                           !.result = IF settledWith = "close"
                                      THEN Result(code = 0, OrZero(code), "stderr")
                                      ELSE Result(FALSE, 1, "spawn error")]]
    /\ activeExecutions' = MapDelete(activeExecutions, sandboxCalls[c].executionId)
    /\ children' = [children EXCEPT ![c].state = "closed"]
    /\ UNCHANGED <<directories, now, validation>>
    /\ UNCHANGED nonSandboxVars

\* The timeout timer of executeTests fires: SIGTERM, and a 5-second timer.
TestsTimeoutFires(c) ==
    /\ c \in DOMAIN children
    /\ sandboxCalls[c].op = "executeTests"
    /\ sandboxCalls[c].timer = "set"
    /\ children' = [children EXCEPT ![c] = kill(@, "SIGTERM")]
    /\ sandboxCalls' = [sandboxCalls EXCEPT ![c].timer = "fired", ![c].grace = @ + 1]
    /\ UNCHANGED <<activeExecutions, directories, now, validation>>
    /\ UNCHANGED nonSandboxVars

\* A 5-second timer fires: SIGKILL if (!child.killed).
GraceTimerFires(c) ==
    /\ c \in DOMAIN children
    /\ sandboxCalls[c].grace > 0
    /\ children' = [children EXCEPT ![c] = IF ~@.killed THEN kill(@, "SIGKILL") ELSE @]
    /\ sandboxCalls' = [sandboxCalls EXCEPT ![c].grace = @ - 1]
    /\ UNCHANGED <<activeExecutions, directories, now, validation>>
    /\ UNCHANGED nonSandboxVars

\* cancelExecution(executionId) for a registered child that is not killed.
CancelExecution(executionId) ==
    /\ executionId \in DOMAIN activeExecutions
    /\ LET c == activeExecutions[executionId]
       IN  /\ ~children[c].killed
           /\ sandboxCalls[c].grace < MaxGraceTimers
           /\ children' = [children EXCEPT ![c] = kill(@, "SIGTERM")]
           /\ sandboxCalls' = [sandboxCalls EXCEPT ![c].grace = @ + 1]
    /\ UNCHANGED <<activeExecutions, directories, now, validation>>
    /\ UNCHANGED nonSandboxVars

\* dispose() of the sandbox with a registry that is not empty.
SandboxDispose ==
    /\ activeExecutions # <<>>
    /\ children' = [c \in DOMAIN children |->
                       IF c \in {activeExecutions[k] : k \in DOMAIN activeExecutions}
                          /\ ~children[c].killed
                       THEN kill(children[c], "SIGTERM")
                       ELSE children[c]]
    /\ activeExecutions' = <<>>
    /\ UNCHANGED <<sandboxCalls, directories, now, validation>>
    /\ UNCHANGED nonSandboxVars

\* A catch block of executeInVM that returns the failed result at once.
VMCatchReturning(activation, result) ==
    [activation EXCEPT !.pc = "returned", !.result = result]

\* The catch block of executeInVM: it awaits cleanupSandbox, then returns the
\* failed result.
VMCatch(activation, result) ==
    [activation EXCEPT !.pc = "cleanup", !.result = result, !.cleanup = "pending"]

\* The token's listener of activation c runs: executeTests sends SIGTERM; in
\* executeInVM the cancellation promise rejects, which decides the race if it
\* is still open.

ListenerRuns(calls, c) ==
    [calls EXCEPT ![c] =
        IF @.op = "executeInVM" /\ @.pc = "race"
        THEN [VMCatch(@, Result(FALSE, 1, "Execution cancelled")) EXCEPT !.listener = "ran"]
        ELSE [@ EXCEPT !.listener = "ran"]]

ListenerSignals(c) ==
    IF sandboxCalls[c].op = "executeTests"
    THEN [children EXCEPT ![c] = kill(@, "SIGTERM")]
    ELSE children

\* The caller cancels the token of activation c; a listener that is registered runs.
CancelToken(c) ==
    /\ c \in DOMAIN sandboxCalls
    /\ sandboxCalls[c].token = "live"
    /\ IF sandboxCalls[c].listener = "registered"
       THEN /\ sandboxCalls' = ListenerRuns([sandboxCalls EXCEPT ![c].token = "cancelled"], c)
            /\ children' = ListenerSignals(c)
       ELSE /\ sandboxCalls' = [sandboxCalls EXCEPT ![c].token = "cancelled"]
            /\ UNCHANGED children
    /\ UNCHANGED <<activeExecutions, directories, now, validation>>
    /\ UNCHANGED nonSandboxVars

\* A listener registered on a token that was already cancelled runs.
LateListenerRuns(c) ==
    /\ c \in DOMAIN sandboxCalls
    /\ sandboxCalls[c].token = "cancelled"
    /\ sandboxCalls[c].listener = "registered"
    /\ sandboxCalls' = ListenerRuns(sandboxCalls, c)
    /\ children' = ListenerSignals(c)
    /\ UNCHANGED <<activeExecutions, directories, now, validation>>
    /\ UNCHANGED nonSandboxVars

\* The program exec() runs for executeInVM.
Node == <<"n", "o", "d", "e">>

\* executeInVM up to its first await, createFolder.
ExecuteInVM(c, code, options, withToken) ==
    /\ c \notin DOMAIN sandboxCalls
    /\ sandboxCalls' = sandboxCalls @@ (c :> NewCall("executeInVM", code, options, withToken))
    /\ UNCHANGED <<children, activeExecutions, directories, now, validation>>
    /\ UNCHANGED nonSandboxVars

\* createFolder of executeInVM settles; writeFile is next.
VMCreateFolderSettles(c, ok) ==
    /\ c \in DOMAIN sandboxCalls
    /\ sandboxCalls[c].op = "executeInVM"
    /\ sandboxCalls[c].pc = "createFolder"
    /\ directories' = IF ok THEN directories \cup {sandboxCalls[c].sandboxId} ELSE directories
    /\ sandboxCalls' = [sandboxCalls EXCEPT ![c] =
          IF ok THEN [@ EXCEPT !.pc = "writeFile"]
          ELSE VMCatch(@, Result(FALSE, 1, "createFolder failed"))]
    /\ UNCHANGED <<children, activeExecutions, now, validation>>
    /\ UNCHANGED nonSandboxVars

\* writeFile settles.  Then exec() starts the script with its own timeout timer,
\* and the call awaits the race of the exec promise, the timeout promise and
\* the cancellation promise.  The child of exec() is not registered.
WriteFileSettles(c, ok, processEnv) ==
    /\ c \in DOMAIN sandboxCalls
    /\ sandboxCalls[c].pc = "writeFile"
    /\ IF ~ok
       THEN /\ sandboxCalls' = [sandboxCalls EXCEPT ![c] =
                  VMCatch(@, Result(FALSE, 1, "writeFile failed"))]
            /\ UNCHANGED children
       ELSE \E outcome \in {"spawned", "error", "throws"} :
              IF outcome = "throws"
              THEN /\ sandboxCalls' = [sandboxCalls EXCEPT ![c] =
                         VMCatch(@, Result(FALSE, 1, "exec failed"))]
                   /\ UNCHANGED children
              ELSE /\ \E ignoresSIGTERM \in
                            (IF outcome = "spawned" THEN BOOLEAN ELSE {FALSE}) :
                         children' = children @@ (c :>
                            NewChild(Node,
                                     envPairs(VMEnv(processEnv, sandboxCalls[c].options)),
                                     IF outcome = "spawned" THEN "running" ELSE "spawnFailed",
                                     ignoresSIGTERM))
                   /\ sandboxCalls' = [sandboxCalls EXCEPT ![c] =
                         [@ EXCEPT !.pc = "race", !.execTimer = "set", !.timer = "set",
                                   !.listener = IF sandboxCalls[c].token = "none"
                                                THEN "none" ELSE "registered"]]
    /\ UNCHANGED <<activeExecutions, directories, now, validation>>
    /\ UNCHANGED nonSandboxVars

\* The exec promise settles, on the close event of the child (settledWith =
\* "close": it resolves for exit code 0 and rejects else) or on its error event.
\* It decides the race if the race is still open.
ExecSettles(c, settledWith) ==
    /\ c \in DOMAIN children
    /\ sandboxCalls[c].op = "executeInVM"
    /\ children[c].state = (IF settledWith = "close" THEN "exited" ELSE "spawnFailed")
    /\ LET code == children[c].exitCode
           timerCleared == [sandboxCalls[c] EXCEPT
                               !.execTimer = IF @ = "set" THEN "cleared" ELSE @]
       IN  sandboxCalls' = [sandboxCalls EXCEPT ![c] =
              IF timerCleared.pc # "race"
              THEN timerCleared
              ELSE IF settledWith = "close" /\ code = 0
              THEN [timerCleared EXCEPT !.pc = "cleanup", !.result = Result(TRUE, 0, ""),
                                        !.cleanup = "pending"]
              ELSE IF settledWith = "close"
              THEN VMCatch(timerCleared,
                           Result(FALSE, IF code = Null THEN 1 ELSE code, "stderr"))
              ELSE VMCatch(timerCleared, Result(FALSE, ENOENT, "spawn error"))]
    /\ children' = [children EXCEPT ![c].state = "closed"]
    /\ UNCHANGED <<activeExecutions, directories, now, validation>>
    /\ UNCHANGED nonSandboxVars

\* The timeout timer of exec() fires: it sends SIGTERM to the script.
ExecTimeoutFires(c) ==
    /\ c \in DOMAIN children
    /\ sandboxCalls[c].execTimer = "set"
    /\ children' = [children EXCEPT ![c] = kill(@, "SIGTERM")]
    /\ sandboxCalls' = [sandboxCalls EXCEPT ![c].execTimer = "fired"]
    /\ UNCHANGED <<activeExecutions, directories, now, validation>>
    /\ UNCHANGED nonSandboxVars

\* The timer of createTimeoutPromise fires and nothing is rejected.
VMTimeoutFiresWithoutReject(c) ==
    /\ c \in DOMAIN sandboxCalls
    /\ sandboxCalls[c].op = "executeInVM"
    /\ sandboxCalls[c].timer = "set"
    /\ sandboxCalls[c].execTimer # "set"
    /\ sandboxCalls' = [sandboxCalls EXCEPT ![c].timer = "fired"]
    /\ UNCHANGED <<children, activeExecutions, directories, now, validation>>
    /\ UNCHANGED nonSandboxVars

\* The timer of createTimeoutPromise fires and its rejection is taken as the
\* outcome of the call whether the race is still open or not.
VMTimeoutFiresOverriding(c) ==
    /\ c \in DOMAIN sandboxCalls
    /\ sandboxCalls[c].op = "executeInVM"
    /\ sandboxCalls[c].timer = "set"
    /\ sandboxCalls[c].execTimer # "set"
    /\ sandboxCalls' = [sandboxCalls EXCEPT ![c] =
          [@ EXCEPT !.timer = "fired", !.result = Result(FALSE, 1, "Execution timeout")]]
    /\ UNCHANGED <<children, activeExecutions, directories, now, validation>>
    /\ UNCHANGED nonSandboxVars

\* The timer of createTimeoutPromise fires, after the timer of exec() that was
\* set before it for the same delay: the timeout promise rejects, which decides
\* the race if it is still open.
VMTimeoutFires(c) ==
    /\ c \in DOMAIN sandboxCalls
    /\ sandboxCalls[c].op = "executeInVM"
    /\ sandboxCalls[c].timer = "set"
    /\ sandboxCalls[c].execTimer # "set"
    /\ sandboxCalls' = [sandboxCalls EXCEPT ![c] =
          IF @.pc = "race"
          THEN [VMCatch(@, Result(FALSE, 1, "Execution timeout")) EXCEPT !.timer = "fired"]
          ELSE [@ EXCEPT !.timer = "fired"]]
    /\ UNCHANGED <<children, activeExecutions, directories, now, validation>>
    /\ UNCHANGED nonSandboxVars

\* The rm of cleanupSandbox settles; what it throws is logged.  executeInVM
\* awaits it and returns then.
RmSettles(c, ok) ==
    /\ c \in DOMAIN sandboxCalls
    /\ sandboxCalls[c].cleanup = "pending"
    /\ directories' = IF ok THEN directories \ {sandboxCalls[c].sandboxId} ELSE directories
    /\ sandboxCalls' = [sandboxCalls EXCEPT
          ![c].cleanup = IF ok THEN "done" ELSE "failed",
          ![c].pc = IF @ = "cleanup" THEN "returned" ELSE @]
    /\ UNCHANGED <<children, activeExecutions, now, validation>>
    /\ UNCHANGED nonSandboxVars

\* validateChanges up to its await of executeInVM, or to its return when there
\* is no TypeScript file or options.env.SKIP_TS_CHECK is set.  c is the
\* activation of executeInVM.
ValidateChanges(files, SKIP_TS_CHECK, withToken, c) ==
    /\ validation.pc = "idle"
    /\ c \notin DOMAIN sandboxCalls
    /\ LET errors == DangerousErrors(files)
       IN  IF tsFiles(files) # <<>> /\ ~SKIP_TS_CHECK
           THEN /\ validation' = [validation EXCEPT !.pc = "executeInVM", !.files = files,
                                                    !.errors = errors, !.check = c]
                /\ sandboxCalls' = sandboxCalls @@
                      (c :> NewCall("executeInVM", TypeScriptCheck, <<>>, withToken))
           ELSE /\ validation' = [validation EXCEPT
                      !.pc = "returned", !.files = files, !.errors = errors,
                      !.result = [valid |-> errors = <<>>, errors |-> errors]]
                /\ UNCHANGED sandboxCalls
    /\ UNCHANGED <<children, activeExecutions, directories, now>>
    /\ UNCHANGED nonSandboxVars

\* executeInVM has returned to validateChanges, which returns.
ValidateChangesReturns ==
    /\ validation.pc = "executeInVM"
    /\ sandboxCalls[validation.check].pc = "returned"
    /\ LET errors == IF ~sandboxCalls[validation.check].result.success
                     THEN Append(validation.errors, TypeScriptError)
                     ELSE validation.errors
       IN  validation' = [validation EXCEPT
              !.pc = "returned", !.errors = errors,
              !.result = [valid |-> errors = <<>>, errors |-> errors]]
    /\ UNCHANGED <<sandboxCalls, children, activeExecutions, directories, now>>
    /\ UNCHANGED nonSandboxVars

----------------------------------------------------------------------------
(* Specifications *)

\* The step types of the plans explored: a collaborator that may fail (search),
\* a stub (edit), a handler that swallows its collaborator's failure (test) and a
\* type without a handler (custom).
PlanTypes == {"search", "edit", "test", "custom"}
Plans == PlansOver(PlanTypes, MaxPlanLen)
MaxStepsChoices == {0, 1, DefaultMaxSteps}

\* One task, every plan and every option.
Next ==
    \/ \E plan \in Plans, maxSteps \in MaxStepsChoices,
          stopOnError \in BOOLEAN, dryRun \in BOOLEAN, withToken \in BOOLEAN :
            /\ tasks = <<>>
            /\ ExecuteTask(generateUuid, plan, maxSteps, stopOnError, dryRun, withToken)
    \/ \E taskId \in Uuids : StepSettles(taskId)
    \/ \E taskId \in Uuids : TaskCompletes(taskId)
    \/ \E taskId \in Uuids : CancelTask(taskId)
    \/ \E taskId \in Uuids : CancelCallerToken(taskId)
    \/ Dispose

Spec == Init /\ [][Next]_vars

\* Several tasks at once, each with a plan of search steps and default maxSteps.
ConcPlans == PlansOver({"search"}, MaxPlanLen)

ConcNext ==
    \/ \E plan \in ConcPlans, stopOnError \in BOOLEAN :
            /\ DOMAIN tasks # Uuids
            /\ ExecuteTask(generateUuid, plan, DefaultMaxSteps, stopOnError, FALSE, FALSE)
    \/ \E taskId \in Uuids : StepSettles(taskId)
    \/ \E taskId \in Uuids : TaskCompletes(taskId)
    \/ \E taskId \in Uuids : CancelTask(taskId)
    \/ Dispose

ConcSpec == Init /\ [][ConcNext]_vars

\* One task with a plan over all the step types, default maxSteps, no caller token.
TypesPlans == PlansOver(StepTypes, MaxPlanLen)

TypesNext ==
    \/ \E plan \in TypesPlans, stopOnError \in BOOLEAN, dryRun \in BOOLEAN :
            /\ tasks = <<>>
            /\ ExecuteTask(generateUuid, plan, DefaultMaxSteps, stopOnError, dryRun, FALSE)
    \/ \E taskId \in Uuids : StepSettles(taskId)
    \/ \E taskId \in Uuids : TaskCompletes(taskId)
    \/ \E taskId \in Uuids : CancelTask(taskId)
    \/ Dispose

TypesSpec == Init /\ [][TypesNext]_vars

\* One call of planTask, with or without an active model, every response text.
ActiveModels == {NoValue, "model"}

PlanNext ==
    \/ \E activeModelId \in ActiveModels : PlanTask(activeModelId)
    \/ CompletionRejects
    \/ \E planText \in Texts : CompletionResolves(planText)

PlanSpec == Init /\ [][PlanNext]_vars

\* The commands given to executeTests and the allow-lists given with them.
Commands ==
    { <<"n", "p", "m", " ", "t", "e", "s", "t">>,
      <<"n", "o", "d", "e", "m", "o", "n", " ", "x">>,
      <<"r", "m", " ", "-", "r", "f", " ", "/">>,
      <<"'", "a", " ", "b", "'", " ", "c">>,
      <<>> }

AllowedCommandsOptions ==
    { <<>>,
      [allowedCommands |-> <<>>],
      [allowedCommands |-> << <<"r", "m">> >>],
      [allowedCommands |-> << <<"/", "b", "'", "/">> >>],
      [allowedCommands |-> << <<"/">> >>] }

\* process.env of the host where it is not varied.
HostEnv == [PATH |-> "host", NPM_TOKEN |-> "host"]

\* The scripts given to executeInVM.
Scripts == { <<"s", "1">>, <<"s", "2">> }

\* One call of the sandbox, of executeTests or of executeInVM, with everything
\* its environment can do.
SandboxNext ==
    \/ \E command \in Commands, options \in AllowedCommandsOptions, withToken \in BOOLEAN :
            /\ sandboxCalls = <<>>
            /\ ExecuteTests("c1", command, options, withToken)
    \/ \E code \in Scripts, withToken \in BOOLEAN :
            /\ sandboxCalls = <<>>
            /\ ExecuteInVM("c1", code, <<>>, withToken)
    \/ \E c \in CallIds, ok \in BOOLEAN : TestsCreateFolderSettles(c, ok, HostEnv)
    \/ \E c \in CallIds, ok \in BOOLEAN : VMCreateFolderSettles(c, ok)
    \/ \E c \in CallIds, ok \in BOOLEAN : WriteFileSettles(c, ok, HostEnv)
    \/ \E c \in CallIds, code \in {0, 1, Null} : ChildExits(c, code)
    \/ \E c \in CallIds, settledWith \in {"close", "error"} : TestsHandler(c, settledWith)
    \/ \E c \in CallIds, settledWith \in {"close", "error"} : ExecSettles(c, settledWith)
    \/ \E c \in CallIds : TestsTimeoutFires(c)
    \/ \E c \in CallIds : ExecTimeoutFires(c)
    \/ \E c \in CallIds : VMTimeoutFires(c)
    \/ \E c \in CallIds : GraceTimerFires(c)
    \/ \E executionId \in DOMAIN activeExecutions : CancelExecution(executionId)
    \/ SandboxDispose
    \/ \E c \in CallIds : CancelToken(c)
    \/ \E c \in CallIds : LateListenerRuns(c)
    \/ \E c \in CallIds, ok \in BOOLEAN : RmSettles(c, ok)

SandboxSpec == Init /\ [][SandboxNext]_vars

\* The files given to validateChanges: every content of up to MaxContentLen of
\* the lexemes below, and samples for the other patterns; one file, or two files
\* of samples.
MaxContentLen == 3
ContentLexemes == {"eval", "(", "ws", "x"}
Contents == UNION { [1..n -> ContentLexemes] : n \in 0..MaxContentLen }

Samples ==
    { <<"Function", "(">>,
      <<"require", "(", "ws", "'child_process'">>,
      <<"require", "ws", "ws", "(", "'fs'">>,
      <<"x", "process.exit", "(">>,
      <<"rm", "-rf">>,
      <<"rm", "ws", "-rf", "x">>,
      <<"rmdir", "ws", "ws", "/s">>,
      <<"x", "eval", "(", "process.exit", "rm", "ws", "-rf">> }

Paths == { <<"a", ".", "t", "s">>, <<"b", ".", "j", "s">>, <<"c", ".", "t", "s", "x">> }

FileLists ==
    { <<[uri |-> path, content |-> content]>> : path \in Paths, content \in Contents \cup Samples }
    \cup { << [uri |-> <<"b", ".", "j", "s">>, content |-> first],
              [uri |-> path, content |-> second] >> :
              path \in Paths \ { <<"b", ".", "j", "s">> }, first \in Samples, second \in Samples }

\* One call of validateChanges with the executeInVM it makes.
ValidateNext ==
    \/ \E files \in FileLists, SKIP_TS_CHECK \in BOOLEAN :
            ValidateChanges(files, SKIP_TS_CHECK, FALSE, "c1")
    \/ ValidateChangesReturns
    \/ \E c \in CallIds, ok \in BOOLEAN : VMCreateFolderSettles(c, ok)
    \/ \E c \in CallIds, ok \in BOOLEAN : WriteFileSettles(c, ok, HostEnv)
    \/ \E c \in CallIds, code \in {0, 1, Null} : ChildExits(c, code)
    \/ \E c \in CallIds, settledWith \in {"close", "error"} : ExecSettles(c, settledWith)
    \/ \E c \in CallIds : ExecTimeoutFires(c)
    \/ \E c \in CallIds : VMTimeoutFires(c)
    \/ \E c \in CallIds, ok \in BOOLEAN : RmSettles(c, ok)

ValidateSpec == Init /\ [][ValidateNext]_vars

\* The host environments and the options.env given to executeInVM: every
\* choice of variables set by the host and by the caller.
ProcessEnvs ==
    UNION { [names -> {"host"}] :
                names \in SUBSET {"NPM_TOKEN", "GITHUB_TOKEN", "NODE_ENV", "PATH"} }

EnvOptions ==
    { <<>> } \cup
    { [env |-> env] : env \in UNION { [names -> {"caller"}] :
          names \in SUBSET {"NPM_TOKEN", "GITHUB_TOKEN", "NODE_ENV", "PATH", "FOO"} } }

\* One call of executeInVM with every environment.
EnvNext ==
    \/ \E options \in EnvOptions :
            /\ sandboxCalls = <<>>
            /\ ExecuteInVM("c1", <<"s", "1">>, options, FALSE)
    \/ \E c \in CallIds, ok \in BOOLEAN : VMCreateFolderSettles(c, ok)
    \/ \E c \in CallIds, ok \in BOOLEAN, processEnv \in ProcessEnvs :
            WriteFileSettles(c, ok, processEnv)
    \/ \E c \in CallIds, code \in {0, 1} : ChildExits(c, code)
    \/ \E c \in CallIds, settledWith \in {"close", "error"} : ExecSettles(c, settledWith)
    \/ \E c \in CallIds, ok \in BOOLEAN : RmSettles(c, ok)

EnvSpec == Init /\ [][EnvNext]_vars

\* The event loop runs every continuation that is ready, and a handler's promise
\* settles.
Fairness ==
    \A taskId \in Uuids : WF_vars(StepSettles(taskId)) /\ WF_vars(TaskCompletes(taskId))

FairSpec == Spec /\ Fairness

FairTypesSpec == TypesSpec /\ Fairness

\* The file system settles every request and a timer that is set fires.
SandboxFairness ==
    \A c \in CallIds :
        /\ WF_vars(\E ok \in BOOLEAN : VMCreateFolderSettles(c, ok))
        /\ WF_vars(\E ok \in BOOLEAN : WriteFileSettles(c, ok, HostEnv))
        /\ WF_vars(\E ok \in BOOLEAN : RmSettles(c, ok))
        /\ WF_vars(ExecTimeoutFires(c))
        /\ WF_vars(VMTimeoutFires(c))

FairSandboxSpec == SandboxSpec /\ SandboxFairness

\* Two calls at once, of executeTests or executeInVM, with contents that may be
\* equal, with or without options, and a clock that may or may not advance
\* between them.  The timeouts are longer than the calls.
ConcContents == { <<"n", "p", "m", " ", "t", "e", "s", "t">>, <<"n", "o", "d", "e">> }
ConcOptions == { <<>>, [env |-> [FOO |-> "caller"]] }

ConcSandboxNext ==
    \/ \E c \in CallIds, command \in ConcContents, options \in ConcOptions :
            /\ c = "c1" \/ "c1" \in DOMAIN sandboxCalls
            /\ ExecuteTests(c, command, options, FALSE)
    \/ \E c \in CallIds, code \in ConcContents, options \in ConcOptions :
            /\ c = "c1" \/ "c1" \in DOMAIN sandboxCalls
            /\ ExecuteInVM(c, code, options, FALSE)
    \/ \E c \in CallIds, ok \in BOOLEAN : TestsCreateFolderSettles(c, ok, HostEnv)
    \/ \E c \in CallIds, ok \in BOOLEAN : VMCreateFolderSettles(c, ok)
    \/ \E c \in CallIds, ok \in BOOLEAN : WriteFileSettles(c, ok, HostEnv)
    \/ \E c \in CallIds, code \in {0, 1} : ChildExits(c, code)
    \/ \E c \in CallIds, settledWith \in {"close", "error"} : TestsHandler(c, settledWith)
    \/ \E c \in CallIds, settledWith \in {"close", "error"} : ExecSettles(c, settledWith)
    \/ \E c \in CallIds, ok \in BOOLEAN : RmSettles(c, ok)
    \/ Tick

ConcSandboxSpec == Init /\ [][ConcSandboxNext]_vars

\* For executeTests: createFolder and rm settle, the timers that are set fire, a
\* process that was sent a signal that ends it exits, and the close and error
\* events are delivered.
TestsFairness ==
    \A c \in CallIds :
        /\ WF_vars(\E ok \in BOOLEAN : TestsCreateFolderSettles(c, ok, HostEnv))
        /\ WF_vars(\E ok \in BOOLEAN : RmSettles(c, ok))
        /\ WF_vars(TestsTimeoutFires(c))
        /\ WF_vars(GraceTimerFires(c))
        /\ WF_vars(ChildExits(c, Null))
        /\ WF_vars(\E settledWith \in {"close", "error"} : TestsHandler(c, settledWith))

FairTestsSpec == SandboxSpec /\ TestsFairness

----------------------------------------------------------------------------
(* Properties *)

\* Every value the table entry of task t has had: each was fired on the update
\* stream when it was written, and the last one is the entry itself.
Snapshots(t) == {tasks[t]} \cup Range(onDidTaskUpdate[t])

\* The loop of task t has returned.
Returned(t) == frame[t].pc \in {"returned", "done"}

\* C1: once the status of a task in the task table is Completed, Failed or
\* Cancelled, no later step of the program changes it.
C1_TerminalStatusAbsorbing ==
    [][\A t \in DOMAIN tasks :
          tasks[t].status \in Terminal => tasks'[t].status = tasks[t].status]_vars

\* C2: if cancelTask took effect while the task was Running, the task is
\* Cancelled once its loop has returned and its completion event has fired, and
\* the completion event carries that status.
C2_CancelledWhenLoopReturned ==
    \A t \in DOMAIN tasks :
        (cancelTaskAt[t] = "Running" /\ frame[t].pc = "done")
            => /\ tasks[t].status = "Cancelled"
               /\ \A k \in 1..Len(onDidTaskComplete[t]) :
                     onDidTaskComplete[t][k].status = "Cancelled"

\* C3: once cancellation of a task is requested (by cancelTask, by the caller's
\* token or by dispose), no further handler is called and a Pending step stays
\* Pending; when the loop then comes to the boundary before a next step, it sets
\* the task Cancelled and returns.
C3_NoStepAfterCancellation ==
    [][\A t \in DOMAIN tasks :
          cancelRequested[t] =>
            /\ invoked'[t] = invoked[t]
            /\ \A k \in 1..Len(tasks[t].steps) :
                  tasks[t].steps[k].status = "Pending"
                      => tasks'[t].steps[k].status = "Pending"
            /\ (frame[t].pc = "await" /\ frame'[t] # frame[t]) =>
                  LET i == frame[t].i
                      stoppedOnError ==
                          /\ frame[t].options.stopOnError
                          /\ tasks'[t].steps[i + 1].status = "Failed"
                  IN  /\ frame'[t].pc = "returned"
                      /\ (i + 1 < Len(frame[t].task.steps) /\ ~stoppedOnError)
                            => tasks'[t].status = "Cancelled"]_vars

\* A task cancelled at a boundary: a step has run, the next one never started.
C3_Witness ==
    \E t \in DOMAIN tasks :
        /\ cancelRequested[t]
        /\ Returned(t)
        /\ tasks[t].status = "Cancelled"
        /\ Len(invoked[t]) = 1
        /\ Len(tasks[t].steps) = 2
        /\ tasks[t].steps[1].status = "Completed"
        /\ tasks[t].steps[2].status = "Pending"

\* C4 applies to task t: the plan fits in maxSteps, no handler has failed and
\* no cancellation has been requested.
C4_Applies(t) ==
    /\ Len(call[t].plan) <= call[t].maxSteps
    /\ ~cancelRequested[t]
    /\ \A e \in Range(settled[t]) : e[2].ok

AllStepsCompleted(task, n) ==
    /\ Len(task.steps) = n
    /\ \A k \in 1..n : task.steps[k].status = "Completed"

C4_Goal(t) ==
    /\ tasks[t].status = "Completed"
    /\ AllStepsCompleted(tasks[t], Len(call[t].plan))
    /\ Len(onDidTaskComplete[t]) = 1
    /\ onDidTaskComplete[t][1].status = "Completed"
    /\ AllStepsCompleted(onDidTaskComplete[t][1], Len(call[t].plan))

\* C4: a task whose plan of N <= maxSteps steps meets no failing handler and no
\* cancellation eventually is Completed with all N steps Completed and with one
\* completion event, of status Completed; no task ever has two completion events.
C4_SuccessfulPlanCompletes ==
    /\ [](\A t \in DOMAIN tasks : Len(onDidTaskComplete[t]) <= 1)
    /\ \A t \in Uuids :
          (t \in DOMAIN tasks) ~> (t \in DOMAIN tasks /\ (C4_Applies(t) => C4_Goal(t)))

C4_Witness ==
    \E t \in DOMAIN tasks :
        /\ C4_Applies(t)
        /\ C4_Goal(t)
        /\ Len(call[t].plan) = 2
        /\ ~frame[t].options.dryRun

\* The failures recorded for task t: <<k, message>> when the handler of step k
\* threw message.
Failures(t) == {<<e[1], e[2].value>> : e \in {x \in Range(settled[t]) : ~x[2].ok}}

\* C5: with stopOnError, once the handler of step k has failed, step k is Failed
\* with the message thrown, no step after k has been started or has left Pending,
\* the loop has returned, and the task was set Failed with the message that names
\* step k (a status only a later cancelTask replaces).
C5_StopOnErrorHaltsTask ==
    \A t \in DOMAIN tasks :
        frame[t].options.stopOnError =>
            \A f \in Failures(t) :
                LET k == f[1]
                    step == tasks[t].steps[k + 1]
                    message == StepFailedMessage(call[t].plan[k + 1].description, f[2])
                IN  /\ step.status = "Failed"
                    /\ step.error = f[2]
                    /\ \A j \in (k + 1)..(Len(tasks[t].steps) - 1) :
                          /\ tasks[t].steps[j + 1].status = "Pending"
                          /\ j \notin Range(invoked[t])
                    /\ Returned(t)
                    /\ tasks[t].error = message
                    /\ \E snap \in Range(onDidTaskUpdate[t]) :
                          snap.status = "Failed" /\ snap.error = message
                    /\ tasks[t].status = "Failed" \/ cancelTaskAt[t] = "Failed"

C5_Witness ==
    \E t \in DOMAIN tasks :
        /\ frame[t].options.stopOnError
        /\ Failures(t) = {<<0, "search failed">>}
        /\ Len(tasks[t].steps) = 2
        /\ tasks[t].status = "Failed"
        /\ tasks[t].steps[2].status = "Pending"

\* C6: without stopOnError, a step whose handler failed is Failed and stays so,
\* the task is never Failed, the step after a failed one is started unless
\* cancellation was requested, and a loop that returns without a cancellation
\* request has called the handler of every step and leaves the task Completed.
C6_ContinueOnError ==
    \A t \in DOMAIN tasks :
        ~frame[t].options.stopOnError =>
            LET n == Len(tasks[t].steps)
            IN  /\ \A snap \in Snapshots(t) : snap.status # "Failed"
                /\ \A f \in Failures(t) :
                      /\ tasks[t].steps[f[1] + 1].status = "Failed"
                      /\ tasks[t].steps[f[1] + 1].error = f[2]
                      /\ (f[1] + 1 < n /\ ~cancelRequested[t])
                            => (f[1] + 1) \in Range(invoked[t])
                /\ (Returned(t) /\ ~cancelRequested[t]) =>
                      /\ tasks[t].status = "Completed"
                      /\ invoked[t] = [k \in 1..n |-> k - 1]
                      /\ \A k \in 1..n : tasks[t].steps[k].status \in {"Completed", "Failed"}

C6_Witness ==
    \E t \in DOMAIN tasks :
        /\ ~frame[t].options.stopOnError
        /\ ~cancelRequested[t]
        /\ frame[t].pc = "done"
        /\ Failures(t) = {<<0, "search failed">>}
        /\ Len(tasks[t].steps) = 2
        /\ tasks[t].steps[1].status = "Failed"
        /\ tasks[t].steps[2].status = "Completed"
        /\ tasks[t].status = "Completed"

\* In snapshot snap at most one step is Running and a step has left Pending only
\* if the step before it is Completed or Failed.
Sequential(snap) ==
    /\ Cardinality({k \in 1..Len(snap.steps) : snap.steps[k].status = "Running"}) <= 1
    /\ \A k \in 2..Len(snap.steps) :
          snap.steps[k].status # "Pending"
              => snap.steps[k - 1].status \in {"Completed", "Failed"}

\* C7: in every value of every task's table entry at most one step is Running and
\* step i+1 has left Pending only after step i became Completed or Failed, and
\* the handlers of a task are called in step order, also while tasks interleave.
C7_OneStepAtATime ==
    \A t \in DOMAIN tasks :
        /\ \A snap \in Snapshots(t) : Sequential(snap)
        /\ invoked[t] = [k \in 1..Len(invoked[t]) |-> k - 1]
        /\ Len(settled[t]) \in {Len(invoked[t]), Len(invoked[t]) - 1}

\* Two tasks, each with its second step in flight.
C7_Witness ==
    /\ DOMAIN tasks = Uuids
    /\ \A t \in Uuids :
          /\ frame[t].pc = "await"
          /\ frame[t].i = 1
          /\ tasks[t].steps[2].status = "Running"

\* C8: a task has at most one completion event, none while it is Running, the
\* snapshot of the event has a terminal status, a task whose execution is over
\* has had its event, and every task that becomes terminal eventually has one.
C8_CompletionEventOnce ==
    /\ [](\A t \in DOMAIN tasks :
            /\ Len(onDidTaskComplete[t]) <= 1
            /\ tasks[t].status = "Running" => onDidTaskComplete[t] = <<>>
            /\ \A snap \in Range(onDidTaskComplete[t]) : snap.status \in Terminal
            /\ frame[t].pc = "done" <=> Len(onDidTaskComplete[t]) = 1)
    /\ \A t \in Uuids :
          (t \in DOMAIN tasks /\ tasks[t].status \in Terminal)
              ~> (t \in DOMAIN tasks /\ Len(onDidTaskComplete[t]) = 1)

\* A task cancelled by cancelTask while a step was in flight has had its one
\* completion event.
C8_Witness ==
    \E t \in DOMAIN tasks :
        /\ cancelTaskAt[t] = "Running"
        /\ Len(onDidTaskComplete[t]) = 1
        /\ Len(settled[t]) = 1

\* C9: once the completion event of a task has fired, the task's table entry
\* does not change and no update event is fired for it.
C9_SnapshotFinalAfterCompletion ==
    [][\A t \in DOMAIN tasks :
          Len(onDidTaskComplete[t]) > 0
              => /\ tasks'[t] = tasks[t]
                 /\ onDidTaskUpdate'[t] = onDidTaskUpdate[t]]_vars

\* C10: in every value of a task's table entry, and in the object executeTask
\* returned, status Running comes with 0 <= currentStep < number of steps.
C10_CurrentStepValidWhileRunning ==
    \A t \in DOMAIN tasks :
        \A snap \in Snapshots(t) \cup {frame[t].task} :
            snap.status = "Running"
                => (0 <= snap.currentStep /\ snap.currentStep < Len(snap.steps))

\* The loop of task b runs its own course: its cancellation is requested only by
\* cancelTask(b), by the caller's token of b or by dispose, and a loop that
\* returns without such a request leaves the status its own steps gave it.
OwnOutcome(b) ==
    /\ cancelRequested[b]
          => (cancelTaskAt[b] # NoValue \/ callerToken[b] = "cancelled" \/ disposed)
    /\ (Returned(b) /\ ~cancelRequested[b])
          => tasks[b].status =
                IF frame[b].options.stopOnError /\ Failures(b) # {}
                THEN "Failed" ELSE "Completed"

\* C11: the step in which cancelTask(a) takes effect leaves the table entry
\* (status, steps, currentStep), the cancellation source, the loop and the event
\* streams of every other task b as they were, and b's loop goes on to the
\* outcome of its own steps.
C11_CancelTaskLeavesOthersAlone ==
    /\ [](\A b \in DOMAIN tasks : OwnOutcome(b))
    /\ [][\A a \in DOMAIN tasks :
             cancelTaskAt'[a] # cancelTaskAt[a] =>
                \A b \in DOMAIN tasks \ {a} :
                    /\ tasks'[b] = tasks[b]
                    /\ cancelRequested'[b] = cancelRequested[b]
                    /\ (b \in taskCancellations') <=> (b \in taskCancellations)
                    /\ frame'[b] = frame[b]
                    /\ invoked'[b] = invoked[b]
                    /\ onDidTaskUpdate'[b] = onDidTaskUpdate[b]
                    /\ onDidTaskComplete'[b] = onDidTaskComplete[b]]_vars

\* Task a was cancelled by cancelTask before its second step; task b, running at
\* the same time, has completed both of its steps.
C11_Witness ==
    \E a, b \in DOMAIN tasks :
        /\ a # b
        /\ cancelTaskAt[a] = "Running"
        /\ tasks[a].status = "Cancelled"
        /\ Len(tasks[a].steps) = 2
        /\ tasks[a].steps[2].status = "Pending"
        /\ ~cancelRequested[b]
        /\ frame[b].pc = "done"
        /\ tasks[b].status = "Completed"
        /\ AllStepsCompleted(tasks[b], 2)

\* seq is a proper prefix of seq2.
Extends(seq2, seq) ==
    /\ Len(seq2) > Len(seq)
    /\ SubSeq(seq2, 1, Len(seq)) = seq

\* C12: after every step the last snapshot fired on the update stream of a task
\* is the task's table entry (what getTask returns), a new entry comes with one
\* event, and a change of an entry comes with further events on the stream.
C12_UpdateEventPerChange ==
    [][\A t \in DOMAIN tasks' :
          /\ onDidTaskUpdate'[t] # <<>>
          /\ onDidTaskUpdate'[t][Len(onDidTaskUpdate'[t])] = tasks'[t]
          /\ t \notin DOMAIN tasks => Len(onDidTaskUpdate'[t]) >= 1
          /\ t \in DOMAIN tasks =>
                IF tasks'[t] # tasks[t]
                THEN Extends(onDidTaskUpdate'[t], onDidTaskUpdate[t])
                ELSE \/ onDidTaskUpdate'[t] = onDidTaskUpdate[t]
                     \/ Extends(onDidTaskUpdate'[t], onDidTaskUpdate[t])]_vars

\* A task that failed at its second step: its entry changed in status, in
\* currentStep, in error and in the status, result and error of steps.
C12_Witness ==
    \E t \in DOMAIN tasks :
        /\ tasks[t].status = "Failed"
        /\ tasks[t].currentStep = 1
        /\ tasks[t].error # NoMessage
        /\ tasks[t].steps[1].result # NoValue
        /\ tasks[t].steps[2].error # NoValue
        /\ onDidTaskUpdate[t][Len(onDidTaskUpdate[t])] = tasks[t]

\* The moves of a step's status from one value of the entry to the next.
StepMoves ==
    {<<"Pending", "Running">>, <<"Running", "Completed">>, <<"Running", "Failed">>,
     <<"Running", "Skipped">>}

\* C13: the steps of a task start Pending, and from each value of the table entry
\* to the next a step keeps its status or moves Pending -> Running or Running ->
\* Completed, Failed or Skipped.
C13_StepStatusMonotonic ==
    \A t \in DOMAIN tasks :
        LET history == onDidTaskUpdate[t]
        IN  /\ \A j \in 1..Len(history[1].steps) : history[1].steps[j].status = "Pending"
            /\ \A k \in 1..(Len(history) - 1) :
                  \A j \in 1..Len(history[k].steps) :
                      \/ history[k + 1].steps[j].status = history[k].steps[j].status
                      \/ <<history[k].steps[j].status, history[k + 1].steps[j].status>>
                            \in StepMoves

\* Both steps of a task have been Running and are final, the one Completed, the
\* other Failed, and the task was cancelled afterwards.
C13_Witness ==
    \E t \in DOMAIN tasks :
        /\ Len(tasks[t].steps) = 2
        /\ tasks[t].steps[1].status = "Completed"
        /\ tasks[t].steps[2].status = "Failed"
        /\ tasks[t].status = "Cancelled"
        /\ frame[t].pc = "done"

\* C14: the object executeTask returns has status Running; when executeTask
\* returns, the task is in the table under its id, no handler's promise has
\* settled and, if the task has steps, its first step is Running and in flight
\* and no completion event has fired; the later steps of the loop show in the
\* table entry and on the update stream.
C14_ExecuteTaskReturnsRunning ==
    /\ [](\A t \in DOMAIN frame : frame[t].task.status = "Running")
    /\ [][\A t \in DOMAIN frame' \ DOMAIN frame :
             /\ t \in DOMAIN tasks'
             /\ \/ frame'[t].task.steps = <<>>
                \/ tasks'[t].steps = [frame'[t].task.steps EXCEPT ![1].status = "Running"]
             /\ settled'[t] = <<>>
             /\ frame'[t].task.steps # <<>> =>
                   /\ tasks'[t].status = "Running"
                   /\ frame'[t].pc = "await"
                   /\ invoked'[t] = <<0>>
                   /\ onDidTaskComplete'[t] = <<>>]_vars
    /\ [][\A t \in DOMAIN frame :
             frame'[t] # frame[t] =>
                /\ frame'[t].task = frame[t].task
                /\ settled'[t] # settled[t] =>
                      /\ tasks'[t] # tasks[t]
                      /\ Extends(onDidTaskUpdate'[t], onDidTaskUpdate[t])]_vars

\* A task whose two steps completed after executeTask had returned it Running.
C14_Witness ==
    \E t \in DOMAIN tasks :
        /\ frame[t].task.status = "Running"
        /\ AllStepsCompleted(tasks[t], 2)
        /\ \A k \in 1..2 : frame[t].task.steps[k].status = "Pending"
        /\ tasks[t].status = "Completed"
        /\ Len(onDidTaskUpdate[t]) > 2

Min(m, n) == IF m <= n THEN m ELSE n

\* C15: the steps of a task, in the object executeTask returned and in every
\* value of the table entry, are the first min(N, maxSteps) steps of the plan in
\* plan order; they are Pending in the returned object and in the first
\* snapshot; no handler is called for a plan step beyond them.
C15_StepsAreTruncatedPlan ==
    \A t \in DOMAIN tasks :
        LET plan == call[t].plan
            n    == Min(Len(plan), call[t].maxSteps)
        IN  /\ \A snap \in Snapshots(t) \cup {frame[t].task} :
                  /\ Len(snap.steps) = n
                  /\ \A k \in 1..n :
                        /\ snap.steps[k].type = plan[k].type
                        /\ snap.steps[k].name = plan[k].description
            /\ \A snap \in {frame[t].task, onDidTaskUpdate[t][1]} :
                  \A k \in 1..Len(snap.steps) : snap.steps[k].status = "Pending"
            /\ Range(invoked[t]) \subseteq 0..(n - 1)
            /\ Len(invoked[t]) <= n

\* A plan of two steps run with maxSteps = 1: the task is over after one step.
C15_Witness ==
    \E t \in DOMAIN tasks :
        /\ Len(call[t].plan) = 2
        /\ call[t].maxSteps = 1
        /\ frame[t].pc = "done"
        /\ tasks[t].status = "Completed"
        /\ AllStepsCompleted(tasks[t], 1)
        /\ invoked[t] = <<0>>

\* C16: in a dry run no handler calls a collaborator, every promise of
\* executeStep resolves with the dry-run result, a step that has settled is
\* Completed with that result whatever its type, and a loop that returns without
\* a cancellation request leaves the task Completed with every step Completed.
C16_DryRunCallsNothing ==
    \A t \in DOMAIN tasks :
        frame[t].options.dryRun =>
            /\ collaboratorCalls[t] = <<>>
            /\ \A e \in Range(settled[t]) :
                  /\ e[2] = Ok("dryRun")
                  /\ tasks[t].steps[e[1] + 1].status = "Completed"
                  /\ tasks[t].steps[e[1] + 1].result = "dryRun"
            /\ \A snap \in Snapshots(t) :
                  \A k \in 1..Len(snap.steps) : snap.steps[k].status # "Failed"
            /\ (Returned(t) /\ ~cancelRequested[t]) =>
                  /\ tasks[t].status = "Completed"
                  /\ AllStepsCompleted(tasks[t], Len(call[t].plan))

\* A dry run of a plan with a step that has no handler and a step that would
\* request a completion: both are Completed.
C16_Witness ==
    \E t \in DOMAIN tasks :
        /\ frame[t].options.dryRun
        /\ frame[t].pc = "done"
        /\ tasks[t].status = "Completed"
        /\ AllStepsCompleted(tasks[t], 2)
        /\ tasks[t].steps[1].type = "custom"
        /\ tasks[t].steps[2].type = "generate"
        /\ tasks[t].steps[1].result = "dryRun"

\* C17: whatever a handler throws, the loop catches it: the loop is at an await,
\* has returned or is over, never rejected; the step is Failed with the message
\* thrown; and the task eventually has a terminal status and its completion
\* event.
C17_HandlerFailureContained ==
    /\ [](\A t \in DOMAIN tasks :
            /\ frame[t].pc \in {"await", "returned", "done"}
            /\ \A f \in Failures(t) :
                  /\ tasks[t].steps[f[1] + 1].status = "Failed"
                  /\ tasks[t].steps[f[1] + 1].error = f[2])
    /\ \A t \in Uuids :
          (t \in DOMAIN tasks /\ Failures(t) # {})
              ~> (/\ t \in DOMAIN tasks
                  /\ tasks[t].status \in Terminal
                  /\ Len(onDidTaskComplete[t]) = 1)

\* A step without a handler threw, the next step ran, and the task is over with
\* its completion event.
C17_Witness ==
    \E t \in DOMAIN tasks :
        /\ Failures(t) = {<<0, "Unknown step type">>}
        /\ Len(tasks[t].steps) = 2
        /\ tasks[t].steps[1].status = "Failed"
        /\ tasks[t].steps[1].error = "Unknown step type"
        /\ Len(settled[t]) = 2
        /\ tasks[t].status = "Completed"
        /\ Len(onDidTaskComplete[t]) = 1

\* C18: a Test step is Completed only after a sandbox command execution
\* (executeTests) was made for it, and every Test step that was run called the
\* sandbox.
C18_TestStepRunsInSandbox ==
    \A t \in DOMAIN tasks :
        \A k \in 1..Len(tasks[t].steps) :
            (/\ tasks[t].steps[k].type = "test"
             /\ ~frame[t].options.dryRun
             /\ tasks[t].steps[k].status \in {"Running", "Completed", "Failed"})
                => <<k - 1, "agentSandbox.executeTests">> \in Range(collaboratorCalls[t])

\* Some part of text is a JSON array.
ContainsJSONArray(text) ==
    \E i \in 1..Len(text) : \E j \in i..Len(text) :
        text[i] = "[" /\ JSONParse(SubSeq(text, i, j)).ok

\* C19: whatever text the completion resolves with, planTask returns a plan and
\* does not throw, and the plan is the fallback plan (search, generate, edit,
\* verify) when no part of the text is a JSON array.
C19_PlanTaskReturnsOnAnyText ==
    planner.completion = "resolved" =>
        /\ planner.pc = "returned"
        /\ ~ContainsJSONArray(planner.response) => planner.steps = FallbackPlan

\* C20: planTask throws for a reason other than the response text only when
\* there is no active model, and then no completion request has been made; when
\* the completion request rejects, planTask returns the fallback plan.
C20_ThrowsOnlyWithoutModel ==
    /\ (planner.pc = "threw" /\ planner.completion # "resolved")
          => (planner.activeModel = NoValue /\ planner.requests = 0)
    /\ planner.completion = "rejected"
          => (planner.pc = "returned" /\ planner.steps = FallbackPlan)

\* The activations of executeTests and of executeInVM.
IsTests(c) == c \in DOMAIN sandboxCalls /\ sandboxCalls[c].op = "executeTests"
IsVM(c) == c \in DOMAIN sandboxCalls /\ sandboxCalls[c].op = "executeInVM"

\* The allow-list in effect for a call, and a command that matches one of its
\* entries: by prefix, or by pattern for an entry written as /.../.
AllowListInEffect(options) ==
    IF "allowedCommands" \in DOMAIN options /\ options.allowedCommands # <<>>
    THEN options.allowedCommands
    ELSE DefaultAllowed

MatchesAllowList(command, options) ==
    \E entry \in Range(AllowListInEffect(options)) :
        \/ StartsWith(command, entry)
        \/ /\ StartsWith(entry, <<"/">>) /\ EndsWith(entry, <<"/">>)
           /\ RegExpTest(SubSeq(entry, 2, Len(entry) - 1), command)

\* C21: executeTests for a command that matches no entry of the allow-list in
\* effect has returned success=false at once: there is no process, no working
\* directory and no registry entry for the call.
C21_DisallowedCommandNeverSpawns ==
    \A c \in DOMAIN sandboxCalls :
        (IsTests(c) /\ ~MatchesAllowList(sandboxCalls[c].content, sandboxCalls[c].options))
            => /\ sandboxCalls[c].pc = "returned"
               /\ sandboxCalls[c].result.success = FALSE
               /\ c \notin DOMAIN children
               /\ sandboxCalls[c].sandboxId \notin directories
               /\ \A k \in DOMAIN activeExecutions : activeExecutions[k] # c
               /\ sandboxCalls[c].cleanup = "none"

\* executeTests("rm -rf /") with default options has returned a failure.
C21_Witness ==
    \E c \in DOMAIN sandboxCalls :
        /\ IsTests(c)
        /\ sandboxCalls[c].content = <<"r", "m", " ", "-", "r", "f", " ", "/">>
        /\ sandboxCalls[c].options = <<>>
        /\ sandboxCalls[c].pc = "returned"
        /\ sandboxCalls[c].result.stderr = "Command not allowed"
        /\ sandboxCalls[c].result.success = FALSE
        /\ children = <<>>

\* C22: when a 5-second timer set with the SIGTERM of the timeout or of
\* cancelExecution fires and the process of executeTests has not exited, the
\* process is sent SIGKILL.
C22_SignalEscalation ==
    [][\A c \in DOMAIN children :
          (/\ IsTests(c)
           /\ sandboxCalls'[c].grace < sandboxCalls[c].grace
           /\ children[c].state = "running")
              => "SIGKILL" \in Range(children'[c].signals)]_vars

\* C23: every call of executeInVM returns, and a call that has returned after
\* its timeout fired while its process is still running has success=false.
C23_ExecuteInVMReturnsAfterTimeout ==
    /\ \A c \in CallIds : IsVM(c) ~> (IsVM(c) /\ sandboxCalls[c].pc = "returned")
    /\ [](\A c \in DOMAIN children :
            (/\ IsVM(c)
             /\ sandboxCalls[c].pc = "returned"
             /\ sandboxCalls[c].timer = "fired"
             /\ children[c].state = "running")
                => sandboxCalls[c].result.success = FALSE)

\* executeInVM has returned the timeout failure while its process, which
\* ignores the SIGTERM that exec() sent at the timeout, is still running.
C23_Witness ==
    \E c \in DOMAIN children :
        /\ IsVM(c)
        /\ sandboxCalls[c].pc = "returned"
        /\ sandboxCalls[c].result.stderr = "Execution timeout"
        /\ sandboxCalls[c].result.success = FALSE
        /\ children[c].state = "running"
        /\ children[c].ignoresSIGTERM
        /\ children[c].signals = <<"SIGTERM">>

\* C24: a process that is running after the cancellation listener of its call
\* has run, in executeInVM as in executeTests, has been sent SIGTERM.
C24_CancellationSignalsProcess ==
    \A c \in DOMAIN children :
        (sandboxCalls[c].listener = "ran" /\ children[c].state = "running")
            => "SIGTERM" \in Range(children[c].signals)

\* C25: when executeInVM has returned, on every path, the rm of its working
\* directory has settled, and the directory is gone unless rm failed.
C25_VMCleanupBeforeReturn ==
    \A c \in DOMAIN sandboxCalls :
        (IsVM(c) /\ sandboxCalls[c].pc = "returned")
            => /\ sandboxCalls[c].cleanup \in {"done", "failed"}
               /\ sandboxCalls[c].cleanup = "done"
                     => sandboxCalls[c].sandboxId \notin directories

\* executeInVM has returned the cancellation failure and its directory, which
\* had been created, is deleted.
C25_Witness ==
    \E c \in DOMAIN children :
        /\ IsVM(c)
        /\ sandboxCalls[c].pc = "returned"
        /\ sandboxCalls[c].result.stderr = "Execution cancelled"
        /\ sandboxCalls[c].result.success = FALSE
        /\ sandboxCalls[c].cleanup = "done"
        /\ directories = {}

\* C26: when executeTests has delivered its outcome to the caller, the working
\* directory it created is deleted (a failure of rm itself left aside).
C26_TestsCleanupBeforeResult ==
    \A c \in DOMAIN sandboxCalls :
        (/\ IsTests(c)
         /\ sandboxCalls[c].pc \in {"returned", "rejected"}
         /\ sandboxCalls[c].cleanup # "failed")
            => sandboxCalls[c].sandboxId \notin directories

\* C27: no call of executeInVM or executeTests rejects.
C27_NeverRejects ==
    \A c \in DOMAIN sandboxCalls : sandboxCalls[c].pc # "rejected"

\* C28: a process of executeTests that is running and is no more in the
\* registry, though neither of its handlers has run, was removed by dispose and
\* has been sent SIGKILL.
C28_DisposeKillsEveryProcess ==
    \A c \in DOMAIN children :
        (/\ IsTests(c)
         /\ sandboxCalls[c].pc = "spawned"
         /\ children[c].state = "running"
         /\ \A k \in DOMAIN activeExecutions : activeExecutions[k] # c)
            => "SIGKILL" \in Range(children[c].signals)

\* The (file, pattern) pairs of a file list that match, by position.
MatchingPairs(files) ==
    { <<i, p>> \in (1..Len(files)) \X (1..Len(dangerousPatterns)) :
          PatternTest(dangerousPatterns[p], files[i].content) }

\* The content has the text eval( in it.
ContainsEvalCall(content) ==
    \E k \in 1..(Len(content) - 1) : content[k] = "eval" /\ content[k + 1] = "("

\* C29: the result of validateChanges has exactly one error, naming the file,
\* for every (file, pattern) pair that matches, all of them and not the first
\* only; valid is true exactly when there is no error; and a file with eval( in
\* it makes the result invalid with an error naming that file.
C29_ValidateChangesCollectsAllErrors ==
    validation.pc = "returned" =>
        LET files == validation.files
            result == validation.result
            ErrorsOf(i, p) ==
                { k \in 1..Len(result.errors) :
                      result.errors[k] = DangerousError(files[i], dangerousPatterns[p]) }
            Dangerous == { k \in 1..Len(result.errors) :
                               result.errors[k].kind = "Dangerous pattern detected" }
        IN  /\ \A pair \in MatchingPairs(files) :
                  Cardinality(ErrorsOf(pair[1], pair[2])) = 1
            /\ Cardinality(Dangerous) = Cardinality(MatchingPairs(files))
            /\ result.valid <=> (result.errors = <<>>)
            /\ \A i \in 1..Len(files) :
                  ContainsEvalCall(files[i].content)
                      => /\ ~result.valid
                         /\ \E k \in 1..Len(result.errors) :
                               result.errors[k].uri = files[i].uri

\* Two files, the second with eval( after other text and two more patterns:
\* the result is invalid and has the error of the first file and the three of
\* the second.
C29_Witness ==
    /\ validation.pc = "returned"
    /\ Len(validation.files) = 2
    /\ ContainsEvalCall(validation.files[2].content)
    /\ Cardinality(MatchingPairs(validation.files)) = 4
    /\ Len(validation.result.errors) = 4
    /\ validation.result.errors[1].uri = validation.files[1].uri
    /\ validation.result.errors[4].uri = validation.files[2].uri
    /\ ~validation.result.valid

\* C30: when validateChanges has returned after a TypeScript check whose
\* script could not run or could not load the compiler (executeInVM returned a
\* failure for a spawn error or for exit code 1), the check added no error, and
\* the result is valid when no dangerous pattern matched.
C30_UnavailableCheckIsSkipped ==
    (/\ validation.pc = "returned"
     /\ validation.check # ""
     /\ sandboxCalls[validation.check].result.stderr \in {"spawn error", "stderr"})
        => /\ validation.result.errors = DangerousErrors(validation.files)
           /\ MatchingPairs(validation.files) = {} => validation.result.valid

\* C32: the cancellation-source table holds the entry of a task exactly while
\* the task's status is not terminal.
C32_CancellationEntryWhileNotTerminal ==
    \A t \in DOMAIN tasks :
        (t \in taskCancellations) <=> (tasks[t].status \notin Terminal)

\* C36: every result that executeTests has returned has success = (exitCode = 0).
C36_SuccessIffExitCodeZero ==
    \A c \in DOMAIN sandboxCalls :
        (IsTests(c) /\ sandboxCalls[c].pc = "returned")
            => (sandboxCalls[c].result.success <=> (sandboxCalls[c].result.exitCode = 0))

\* C38: no snapshot of a task, in the table or on the update stream, has a
\* step Running while the status of the task is not Running.
C38_RunningStepMeansRunningTask ==
    \A t \in DOMAIN tasks :
        \A snapshot \in Snapshots(t) :
            (\E k \in 1..Len(snapshot.steps) : snapshot.steps[k].status = "Running")
                => snapshot.status = "Running"

\* The programs of the default allow-list.
DefaultPrograms ==
    { <<"n", "p", "m">>, <<"n", "p", "x">>, <<"n", "o", "d", "e">>,
      <<"p", "y", "t", "h", "o", "n">> }

\* C40: under the default allow-list the program of every process that
\* executeTests has spawned is npm, npx, node or python.
C40_DefaultListSpawnsKnownPrograms ==
    \A c \in DOMAIN children :
        (IsTests(c) /\ AllowListInEffect(sandboxCalls[c].options) = DefaultAllowed)
            => children[c].program \in DefaultPrograms

\* C33: the result of a call of executeInVM is set once, by the first of
\* process completion, timeout and cancellation to happen while the race is
\* open, and is the outcome of that event; no later step changes it, and a call
\* that has returned stays returned.
C33_FirstOutcomeWins ==
    [][\A c \in DOMAIN sandboxCalls :
          IsVM(c) =>
             /\ sandboxCalls[c].result # NoResult
                   => sandboxCalls'[c].result = sandboxCalls[c].result
             /\ sandboxCalls[c].pc = "returned" => sandboxCalls'[c].pc = "returned"
             /\ (sandboxCalls[c].pc = "race" /\ sandboxCalls'[c].pc # "race")
                   => /\ sandboxCalls[c].result = NoResult
                      /\ sandboxCalls'[c].timer # sandboxCalls[c].timer
                            => sandboxCalls'[c].result.stderr = "Execution timeout"
                      /\ sandboxCalls'[c].listener # sandboxCalls[c].listener
                            => sandboxCalls'[c].result.stderr = "Execution cancelled"
                      /\ children'[c].state # children[c].state
                            => sandboxCalls'[c].result.stderr \in {"", "stderr", "spawn error"}]_vars

\* The script exited with code 1; the timeout fired and the token was
\* cancelled after that, and the call has returned the failure of the exit.
C33_Witness ==
    \E c \in DOMAIN children :
        /\ IsVM(c)
        /\ sandboxCalls[c].pc = "returned"
        /\ sandboxCalls[c].result.stderr = "stderr"
        /\ sandboxCalls[c].result.exitCode = 1
        /\ sandboxCalls[c].timer = "fired"
        /\ sandboxCalls[c].listener = "ran"

\* C37: every call of executeTests that has spawned a process eventually
\* returns a result.
C37_ExecuteTestsReturns ==
    \A c \in CallIds :
        (IsTests(c) /\ c \in DOMAIN children)
            ~> (IsTests(c) /\ sandboxCalls[c].pc = "returned")

\* C35: the environment of the process of executeInVM has no NPM_TOKEN and no
\* GITHUB_TOKEN, and has every other entry of options.env but NODE_ENV with
\* the caller's value.
C35_SecretsStrippedFromVMEnv ==
    \A c \in DOMAIN children :
        IsVM(c) =>
            /\ "NPM_TOKEN" \notin DOMAIN children[c].env
            /\ "GITHUB_TOKEN" \notin DOMAIN children[c].env
            /\ \A name \in DOMAIN OptionsEnv(sandboxCalls[c].options) :
                  name \notin {"NPM_TOKEN", "GITHUB_TOKEN", "NODE_ENV"}
                      => /\ name \in DOMAIN children[c].env
                         /\ children[c].env[name] = sandboxCalls[c].options.env[name]

\* The caller gave NPM_TOKEN, GITHUB_TOKEN and PATH, the host has all of its
\* variables set: the process has the caller's PATH, production, and no token.
C35_Witness ==
    \E c \in DOMAIN children :
        /\ IsVM(c)
        /\ DOMAIN OptionsEnv(sandboxCalls[c].options) = {"NPM_TOKEN", "GITHUB_TOKEN", "PATH"}
        /\ children[c].env = [PATH |-> "caller", NODE_ENV |-> "production"]

C34_RegistryTracksProcesses ==
    \A c \in DOMAIN children :
        IsTests(c) =>
            IF children[c].state # "closed"
            THEN /\ sandboxCalls[c].executionId \in DOMAIN activeExecutions
                 /\ activeExecutions[sandboxCalls[c].executionId] = c
            ELSE \A k \in DOMAIN activeExecutions : activeExecutions[k] # c

\* C39: the working directory of a call whose process is running exists.
C39_SharedDirectoryNotDeletedUnderProcess ==
    \A c \in DOMAIN children :
        children[c].state = "running" => sandboxCalls[c].sandboxId \in directories

====
